---- MODULE Spec2Model ----
(***************************************************************************)
(* Model of the knowledge-injection chat client and the comic workshop.    *)
(*                                                                         *)
(* The browser runs one event loop.  A handler runs without interruption   *)
(* until it reaches an `await` on a network call, an image decode or an    *)
(* IndexedDB transaction; every such suspension point splits a handler     *)
(* into steps, and each step is one action below.  Values a handler reads  *)
(* from its React closure (characters, sessionId, sceneRefsInjected ...)   *)
(* are captured in the call record when the handler starts; functional     *)
(* state updates (setX(prev => ...)) and refs read the current state.      *)
(*                                                                         *)
(* Handlers are entry points: none of them tests `loading` or `isLoading`  *)
(* itself, and the module-level workshopHistory outlives the component,    *)
(* which App mounts conditionally per tab.  Calls may therefore overlap.   *)
(***************************************************************************)
EXTENDS FiniteSets, Integers, Sequences, TLC

\* ---------------------------------------------------------------- bounds
MaxCalls == 2      \* stage operations started (ids handed out by generateId)
MaxChats == 1      \* chat messages sent
MaxPage == 2       \* page numbers a render can be requested for
MaxLoads == 1      \* session activations after the mount
MaxAdds == 2       \* entities added by hand
MaxScans == 1      \* asset scans after the one of the mount

Pages == 1..MaxPage
CallIds == 1..MaxCalls
ChatIds == 1..MaxChats
Sessions == {"s1", "s2"}

\* ------------------------------------------------------- values and names
\* A data URL 'data:<mime>;base64,<data>'; NoUrl is the empty string.
NoUrl == [mime |-> "", data |-> 0]

\* The generic failure text of withLoading.
GenericMsg == "retry"

\* Image payloads are numbers: 0 is the empty string, a call id c is the raw
\* image returned to call c, Recode(d) its JPEG re-encoding.
Recode(d) == d + 50

\* data.slice(0, 20): the leading characters of a payload.
Prefix(d) == d \div 100

\* Names are sequences of characters.
\* A name taken as it comes.
ensureAtNameKeep(name) == name

ensureAtName(name) ==
    IF Len(name) > 0 /\ name[1] = "@" THEN name ELSE <<"@">> \o name

stripAtName(name) ==
    IF Len(name) > 0 /\ name[1] = "@" THEN Tail(name) ELSE name

\* parseDataUrl yields null (here: the empty record) for a string without
\* 'base64,'.
ParseNull == [base64 |-> 0, mimeType |-> ""]

parseDataUrl(dataUrl) ==
    IF dataUrl = NoUrl THEN ParseNull
    ELSE [base64 |-> dataUrl.data,
          mimeType |-> IF dataUrl.mime = "" THEN "image/png" ELSE dataUrl.mime]

\* compressDataUrl: null for a string without 'base64,', else the image
\* redrawn on a canvas and re-encoded as JPEG.
compressDataUrl(dataUrl) ==
    IF dataUrl = NoUrl THEN NoUrl
    ELSE [mime |-> "image/jpeg", data |-> Recode(dataUrl.data)]

\* compressed?.dataUrl || imageUrl
NormalizedUrl(imageUrl) ==
    IF compressDataUrl(imageUrl) = NoUrl THEN imageUrl ELSE compressDataUrl(imageUrl)

\* ------------------------------------------------------ payload segments
TextSeg(tag, name, idx) ==
    [kind |-> "text", tag |-> tag, name |-> name, idx |-> idx, data |-> 0]

ImageSeg(mimeType, data) ==
    [kind |-> "image", tag |-> mimeType, name |-> <<>>, idx |-> 0, data |-> data]

\* `${ref.data.slice(0, 20)}-${ref.name || idx}`
RefKey(ref, idx) ==
    [p |-> Prefix(ref.data), n |-> ref.name, i |-> IF ref.name = <<>> THEN idx ELSE 0 - 1]

\* Array.from(new Map(refs.map((ref, idx) => [key, ref])).values()): a key
\* seen again keeps its first position and takes the later value.
RECURSIVE MapValues(_, _, _)
MapValues(refs, i, acc) ==
    IF i > Len(refs) THEN acc
    ELSE LET k == RefKey(refs[i], i - 1)
             hit == {j \in 1..Len(acc) : acc[j].k = k}
         IN IF hit = {}
            THEN MapValues(refs, i + 1, Append(acc, [k |-> k, v |-> refs[i]]))
            ELSE MapValues(refs, i + 1,
                     [j \in 1..Len(acc) |-> IF j \in hit THEN [k |-> k, v |-> refs[i]] ELSE acc[j]])

UniqueRefs(refs) ==
    LET m == MapValues(refs, 1, <<>>) IN [j \in 1..Len(m) |-> m[j].v]

RECURSIVE LabeledRefs(_, _, _)
LabeledRefs(tag, refs, i) ==
    IF i > Len(refs) THEN <<>>
    ELSE <<TextSeg(tag, refs[i].name, i), ImageSeg(refs[i].mimeType, refs[i].data)>>
         \o LabeledRefs(tag, refs, i + 1)

\* The synchronous part of generateWorkshopImage: the parts it sends.
WorkshopParts(prompt, charRefs, styleRefs, history) ==
    LET shouldInjectStyleRefs == Len(styleRefs) > 0 /\ Len(history) = 0
        styleSection ==
            IF shouldInjectStyleRefs
            THEN <<TextSeg("style-begin", <<>>, 0)>>
                 \o LabeledRefs("style-label", UniqueRefs(styleRefs), 1)
                 \o <<TextSeg("style-end", <<>>, 0)>>
            ELSE <<>>
        charSection ==
            (IF Len(charRefs) > 0 THEN <<TextSeg("char-begin", <<>>, 0)>> ELSE <<>>)
            \o LabeledRefs("char-label", UniqueRefs(charRefs), 1)
            \o (IF Len(charRefs) > 0 THEN <<TextSeg("char-end", <<>>, 0)>> ELSE <<>>)
    IN styleSection \o charSection \o <<prompt>>

HasStyle(parts) == \E i \in 1..Len(parts) : parts[i].tag \in {"style-begin", "style-label", "style-end"}


\* ------------------------------------------------------------------ state
VARIABLES
    step, novelText, characters, items, storyboard, pageRenders, sessionId,
    loading, errorMessage, renderRequestIdRef,
    entities, sceneReferences, historyClearedAt, sceneRefsInjected, onErrorCount,
    adds, isScanning, scans,
    workshopHistory,
    textStore, assetStore,
    calls, nextId, hydrations, loads,
    history, messages, isLoading, historySnapshot, chats, nextChat

projVars == <<step, novelText, characters, items, storyboard, pageRenders, sessionId,
              entities, textStore>>
uiVars == <<loading, errorMessage, onErrorCount>>
chatVars == <<history, messages, isLoading, historySnapshot, chats, nextChat>>
kbVars == <<adds, isScanning, scans>>
vars == <<projVars, uiVars, renderRequestIdRef, sceneReferences, historyClearedAt, kbVars, sceneRefsInjected,
          workshopHistory, assetStore, calls, nextId, hydrations, loads, chatVars>>

\* ------------------------------------------------------------ novel text
\* A text is the sequence of its characters.
NoText == <<>>
NovelTxt == <<"t", "x", "t">>

\* A text of n characters.
TextOfLen(n) == [i \in 1..n |-> NovelTxt[((i - 1) % 3) + 1]]

\* A substring that hands the text back whole.
SubstringWhole(text, start, end) == text

\* text.substring(start, end) for 0 <= start <= end
Substring(text, start, end) ==
    SubSeq(text, start + 1, IF end < Len(text) THEN end ELSE Len(text))

ExtractBudget == 10000
StoryboardBudget == 8000

\* The novel text as extractWorkshopEntities puts it into its prompt.
ExtractPrompt(text) ==
    <<[kind |-> "text", tag |-> "novel", name |-> Substring(text, 0, ExtractBudget),
       idx |-> 0, data |-> 0]>>

\* The character context and the novel text as generateWorkshopStoryboard
\* puts them into its prompt.
StoryboardPrompt(text, chars) ==
    [i \in 1..Len(chars) |->
        [kind |-> "text", tag |-> "character-context", name |-> chars[i].name,
         idx |-> 0, data |-> 0]]
    \o <<[kind |-> "text", tag |-> "novel", name |-> Substring(text, 0, StoryboardBudget),
          idx |-> 0, data |-> 0]>>

\* ------------------------------------------------------- project contents
CharId(t, i) == [t |-> t, i |-> i]

Character(id, name, imageUrl, prompt) ==
    [id |-> id, name |-> name, imageUrl |-> imageUrl, lastUsedPrompt |-> prompt]

Scene(pageNumber, panelNumber, names) ==
    [pageNumber |-> pageNumber, panelNumber |-> panelNumber, charactersInScene |-> names]

\* What the extraction model may answer (names with and without '@').
ExtractResults ==
    { [characters |-> <<>>, items |-> <<>>],
      [characters |-> <<[name |-> <<"@", "A">>], [name |-> <<"B">>]>>, items |-> <<"sword">>] }

\* What the storyboard model may answer.
StoryboardResults ==
    { <<>>,
      <<Scene(1, 1, <<<<"@", "A">>, <<"@", "B">>>>), Scene(1, 2, <<<<"B">>>>)>> }

\* The catalog the asset scan delivered, and the style references imported.
\* A was loaded with its image; the fetch of B failed, which leaves an entry
\* without image.
CatalogA == [id |-> 201, name |-> <<"A">>, base64 |-> 101, mimeType |-> "image/jpeg"]
CatalogB == [id |-> 203, name |-> <<"B">>, base64 |-> 0, mimeType |-> ""]
SceneRefS == [id |-> 202, name |-> <<"tone">>, base64 |-> 102, mimeType |-> "image/jpeg"]

\* storyboardPages.find(page => page.pageNumber === pageNumber)?.panels || []
PagePanels(sb, pageNumber) ==
    SelectSeq(sb, LAMBDA scene : scene.pageNumber = pageNumber)

\* Every character, on the page or not.
PageCharactersAll(chars, panels) == chars

\* characters.filter(c => pagePanels.some(panel => panel.charactersInScene.some(...)))
PageCharacters(chars, panels) ==
    SelectSeq(chars, LAMBDA c :
        \E i \in 1..Len(panels) :
            \E j \in 1..Len(panels[i].charactersInScene) :
                stripAtName(panels[i].charactersInScene[j]) = stripAtName(c.name))

RECURSIVE RefsOfCharacters(_)
RefsOfCharacters(chars) ==
    IF chars = <<>> THEN <<>>
    ELSE LET c == Head(chars)
             parsed == parseDataUrl(c.imageUrl)
         IN (IF parsed = ParseNull THEN <<>>
             ELSE <<[data |-> parsed.base64, mimeType |-> parsed.mimeType, name |-> c.name]>>)
            \o RefsOfCharacters(Tail(chars))

\* focusLine: the page characters the prompt describes in words, those whose
\* name is not the name of a reference.
FocusDescribed(pageCharacters, charRefs) ==
    LET worded == SelectSeq(pageCharacters, LAMBDA c :
                      \A r \in 1..Len(charRefs) : charRefs[r].name # c.name)
    IN [i \in 1..Len(worded) |-> worded[i].name]

\* Style references handed over whatever the latch says.
StyleRefsAlways(injected, refs) ==
    [i \in 1..Len(refs) |->
        [data |-> refs[i].base64, mimeType |-> refs[i].mimeType, name |-> refs[i].name]]

\* sceneReferences.filter(ref => ref.base64).map(...) when the latch is open
StyleRefsToInject(injected, refs) ==
    IF ~injected /\ Len(refs) > 0
    THEN LET kept == SelectSeq(refs, LAMBDA ref : ref.base64 # 0)
         IN [i \in 1..Len(kept) |->
                [data |-> kept[i].base64, mimeType |-> kept[i].mimeType, name |-> kept[i].name]]
    ELSE <<>>

\* The effect on [entities, characters]: a character without portrait takes
\* the catalog image of the entity with its name.
SyncCharacters(chars, ents) ==
    IF Len(ents) = 0 \/ Len(chars) = 0 THEN chars
    ELSE [i \in 1..Len(chars) |->
            IF chars[i].imageUrl # NoUrl THEN chars[i]
            ELSE LET match == SelectSeq(ents, LAMBDA e :
                                  e.name = stripAtName(chars[i].name) /\ e.base64 # 0)
                 IN IF match = <<>> THEN chars[i]
                    ELSE [chars[i] EXCEPT
                            !.imageUrl = [mime |-> match[1].mimeType, data |-> match[1].base64],
                            !.lastUsedPrompt = "imported"]]

\* A snapshot that keeps the render images.
SnapshotWithImages(s) ==
    [step |-> s.step, novelText |-> s.novelText, characters |-> s.characters,
     items |-> s.items, storyboard |-> s.storyboard, pageRenders |-> s.pageRenders]

\* The snapshot the persist effect writes: render images blanked.
Snapshot(s) ==
    [step |-> s.step, novelText |-> s.novelText, characters |-> s.characters,
     items |-> s.items, storyboard |-> s.storyboard,
     pageRenders |-> [p \in DOMAIN s.pageRenders |-> [s.pageRenders[p] EXCEPT !.imageUrl = NoUrl]]]

NoSnapshot == [step |-> "none", novelText |-> NoText, characters |-> <<>>, items |-> <<>>,
               storyboard |-> <<>>, pageRenders |-> <<>>]

Cur ==
    [step |-> step, novelText |-> novelText, characters |-> characters, items |-> items,
     storyboard |-> storyboard, pageRenders |-> pageRenders, sessionId |-> sessionId,
     entities |-> entities]

\* A React commit of component and App state followed by its effects: the
\* catalog-to-character sync and the session persist.
Commit(s) ==
    LET synced == [s EXCEPT !.characters = SyncCharacters(s.characters, s.entities)]
    IN /\ step' = synced.step
       /\ novelText' = synced.novelText
       /\ characters' = synced.characters
       /\ items' = synced.items
       /\ storyboard' = synced.storyboard
       /\ pageRenders' = synced.pageRenders
       /\ sessionId' = synced.sessionId
       /\ entities' = synced.entities
       /\ textStore' = [textStore EXCEPT ![synced.sessionId] = Snapshot(synced)]

\* pageRenders with one page set
SetRender(renders, p, imageUrl, prompt) ==
    [q \in (DOMAIN renders) \cup {p} |->
        IF q = p THEN [imageUrl |-> imageUrl, lastUsedPrompt |-> prompt] ELSE renders[q]]

NoRenders == [q \in {} |-> [imageUrl |-> NoUrl, lastUsedPrompt |-> ""]]

\* ------------------------------------------------------------ call records
\* A record holds what a handler's closure holds while it runs; `before` is
\* what the page showed and what the asset store held for it when the
\* request started, kept for comparison only (no handler reads it).
NoCall ==
    [kind |-> "none", pc |-> "idle", outcome |-> "", gateway |-> "", style |-> FALSE, page |-> 0, charId |-> CharId(0, 0),
     requestId |-> 0, sid |-> "", panels |-> <<>>,
     name |-> <<>>, charRefs |-> <<>>, styleRefs |-> <<>>, parts |-> <<>>,
     imageUrl |-> NoUrl, normalizedUrl |-> NoUrl, saved |-> "",
     before |-> [imageUrl |-> NoUrl, stored |-> NoUrl], described |-> <<>>]

\* Errors a rejected call carries, and what the image model may answer.
Errors ==
    { [status |-> 404, notFound |-> FALSE], [status |-> 0, notFound |-> TRUE],
      [status |-> 500, notFound |-> FALSE], [status |-> 0, notFound |-> FALSE] }

\* error?.message?.includes('Requested entity was not found') || error?.status === 404
IsInvalidCredential(error) == error.notFound \/ error.status = 404

ImageResponses ==
    { r \in [content : BOOLEAN, image : BOOLEAN, text : {"", "plain", "notfound"}] :
        r.image => r.content }

\* ------------------------------------------------------------- withLoading
\* setLoading(true); setLoadingMsg(msg); setErrorMessage('')
LoadingStart ==
    /\ loading' = TRUE
    /\ errorMessage' = ""
    /\ onErrorCount' = onErrorCount

\* A withLoading whose catch shows nothing.
LoadingEndQuiet(outcome) ==
    /\ loading' = FALSE
    /\ errorMessage' = errorMessage
    /\ onErrorCount' = IF outcome = "auth" THEN onErrorCount + 1 ELSE onErrorCount

\* The catch and finally of withLoading; outcome is "ok", "error" or "auth".
LoadingEnd(outcome) ==
    /\ loading' = FALSE
    /\ errorMessage' = IF outcome = "error" THEN GenericMsg ELSE errorMessage
    /\ onErrorCount' = IF outcome = "auth" THEN onErrorCount + 1 ELSE onErrorCount

\* fn returned before its first await: start and end in one step.
LoadingStartEnd ==
    /\ loading' = FALSE
    /\ errorMessage' = ""
    /\ onErrorCount' = onErrorCount

ErrorOutcome(error) == IF IsInvalidCredential(error) THEN "auth" ELSE "error"

\* The record kept of a finished call: what it was, how it ended, what the
\* gateway handed back and whether its payload carried style references.
Finished(c, outcome, gateway, imageUrl) ==
    [calls EXCEPT ![c] = [NoCall EXCEPT !.kind = calls[c].kind, !.pc = "done",
                                        !.outcome = outcome, !.gateway = gateway,
                                        !.imageUrl = imageUrl,
                                        !.style = HasStyle(calls[c].parts)]]

Done(c, outcome) == Finished(c, outcome, calls[c].gateway, calls[c].imageUrl)


\* ------------------------------------------------------------------- Init
FreshProject ==
    [step |-> "input", novelText |-> NoText, characters |-> <<>>, items |-> <<>>,
     storyboard |-> <<>>, pageRenders |-> NoRenders]

\* A session saved by an earlier visit: analysed, storyboarded, page 1
\* rendered (its image lives in the asset store only).
StagedProject ==
    [step |-> "storyboard", novelText |-> NovelTxt,
     characters |-> <<Character(CharId(0, 0), <<"@", "A">>,
                                [mime |-> "image/jpeg", data |-> 101], "imported"),
                      Character(CharId(0, 1), <<"@", "B">>, NoUrl, "")>>,
     items |-> <<"sword">>,
     storyboard |-> <<Scene(1, 1, <<<<"@", "A">>, <<"@", "B">>>>), Scene(1, 2, <<<<"B">>>>)>>,
     pageRenders |-> SetRender(NoRenders, 1, NoUrl, "prompt")]

StoredImage == [mime |-> "image/jpeg", data |-> 150]

NoAssets == [k \in Sessions \X Pages |-> NoUrl]

NoChat == [pc |-> "idle", gateway |-> "", outcome |-> "", text |-> <<>>, parts |-> <<>>, inject |-> FALSE]

InitChat ==
    /\ history = <<>>
    /\ messages = <<>>
    /\ isLoading = FALSE
    /\ historySnapshot = <<>>
    /\ chats = [c \in ChatIds |-> NoChat]
    /\ nextChat = 1

\* The state after the mount effect: createSession on an empty store, or
\* loadSession of the active stored session with its hydration in flight.
MountedOn(project, restored) ==
    /\ step = project.step
    /\ novelText = project.novelText
    /\ characters = project.characters
    /\ items = project.items
    /\ storyboard = project.storyboard
    /\ pageRenders = project.pageRenders
    /\ textStore = [s \in Sessions |-> IF s = "s1" THEN Snapshot(project) ELSE NoSnapshot]
    /\ assetStore = IF restored
                    THEN [NoAssets EXCEPT ![<<"s1", 1>>] = StoredImage]
                    ELSE NoAssets
    /\ hydrations = IF restored
                    THEN {[sid |-> "s1", pc |-> "read",
                           entries |-> [p \in DOMAIN project.pageRenders |-> NoUrl]]}
                    ELSE {}
    /\ sessionId = "s1"
    /\ loading = FALSE
    /\ errorMessage = ""
    /\ renderRequestIdRef = [p \in Pages |-> 0]
    /\ sceneReferences = <<SceneRefS>>
    /\ sceneRefsInjected = FALSE
    /\ historyClearedAt = 0
    /\ adds = 0
    /\ isScanning = FALSE
    /\ scans = 0
    /\ onErrorCount = 0
    /\ workshopHistory = <<>>
    /\ calls = [c \in CallIds |-> NoCall]
    /\ nextId = 1
    /\ loads = 0
    /\ InitChat

Mounted ==
    \E restored \in BOOLEAN :
        MountedOn(IF restored THEN StagedProject ELSE FreshProject, restored)

Init == Mounted /\ entities = <<CatalogA, CatalogB>>

\* --------------------------------------------------------- page rendering
PagePrompt(pageNumber) == TextSeg("prompt", <<>>, pageNumber)
CharPrompt(name) == TextSeg("prompt", name, 0)

\* handleGeneratePageImage up to `await deletePageRenderImage`.
handleGeneratePageImage(pageNumber) ==
    /\ nextId <= MaxCalls
    /\ LET c == nextId
           pagePanels == PagePanels(storyboard, pageNumber)
           pageCharacters == PageCharacters(characters, pagePanels)
       IN /\ calls' = [calls EXCEPT ![c] =
                [NoCall EXCEPT !.kind = "page", !.pc = "delete", !.page = pageNumber,
                               !.requestId = c, !.sid = sessionId, !.panels = pagePanels,
                               !.before = [imageUrl |-> IF pageNumber \in DOMAIN pageRenders
                                                        THEN pageRenders[pageNumber].imageUrl
                                                        ELSE NoUrl,
                                           stored |-> assetStore[<<sessionId, pageNumber>>]],
                               !.charRefs = RefsOfCharacters(pageCharacters),
                               !.described = FocusDescribed(pageCharacters,
                                                            RefsOfCharacters(pageCharacters)),
                               !.styleRefs = StyleRefsToInject(sceneRefsInjected, sceneReferences)]]
          /\ renderRequestIdRef' = [renderRequestIdRef EXCEPT ![pageNumber] = c]
          /\ Commit([Cur EXCEPT !.pageRenders =
                        SetRender(pageRenders, pageNumber, NoUrl, "refreshing")])
    /\ nextId' = nextId + 1
    /\ LoadingStart
    /\ UNCHANGED <<sceneReferences, historyClearedAt, kbVars, sceneRefsInjected, workshopHistory, assetStore,
                   hydrations, loads, chatVars>>

\* The delete transaction completes; the handler builds the prompt and calls
\* generateWorkshopImage, which runs up to `await chat.sendMessage`.
PageDeleteDone(c) ==
    /\ calls[c].kind = "page" /\ calls[c].pc = "delete"
    /\ assetStore' = [assetStore EXCEPT ![<<calls[c].sid, calls[c].page>>] = NoUrl]
    /\ IF calls[c].panels = <<>>
       THEN /\ calls' = Done(c, "noop")
            /\ LoadingEnd("ok")
       ELSE /\ calls' = [calls EXCEPT ![c].pc = "api",
                            ![c].parts = WorkshopParts(PagePrompt(calls[c].page), calls[c].charRefs,
                                                       calls[c].styleRefs, workshopHistory)]
            /\ UNCHANGED uiVars
    /\ UNCHANGED <<projVars, renderRequestIdRef, sceneReferences, historyClearedAt, kbVars, sceneRefsInjected,
                   workshopHistory, nextId, hydrations, loads, chatVars>>


\* ------------------------------------- generateWorkshopImage after the await
UserTurn(c, parts) == [role |-> "user", call |-> c, parts |-> parts]
ModelTurn(c) == [role |-> "model", call |-> c, parts |-> <<>>]

\* A gateway that records the user turn whatever came back.
PushTurnsEager(hist, c, parts, response) ==
    IF response.content THEN hist \o <<UserTurn(c, parts), ModelTurn(c)>>
    ELSE hist \o <<UserTurn(c, parts)>>

\* if (response.candidates?.[0]?.content) { push user turn; push content }
PushTurns(hist, c, parts, response) ==
    IF response.content THEN hist \o <<UserTurn(c, parts), ModelTurn(c)>> ELSE hist

\* the first inlineData part as a data URL, '' without one
ResponseImageUrl(c, response) ==
    IF response.image THEN [mime |-> "image/png", data |-> c] ELSE NoUrl

\* if (!imageUrl && response.text) throw new Error(response.text)
ImageThrows(c, response) == ResponseImageUrl(c, response) = NoUrl /\ response.text # ""

TextError(response) == [status |-> 0, notFound |-> response.text = "notfound"]

\* withLoading's catch and finally for call c.
FailCall(c, gateway, error) ==
    /\ calls' = Finished(c, ErrorOutcome(error), gateway, calls[c].imageUrl)
    /\ LoadingEnd(ErrorOutcome(error))

\* handleGeneratePageImage after generateWorkshopImage returned imageUrl.
PageAfterImage(c, imageUrl) ==
    LET pageNumber == calls[c].page
    IN IF renderRequestIdRef[pageNumber] # calls[c].requestId
       THEN /\ calls' = Finished(c, "stale", "returned", imageUrl)
            /\ LoadingEnd("ok")
            /\ UNCHANGED <<projVars, sceneRefsInjected>>
       ELSE IF imageUrl = NoUrl
            \* compressDataUrl and savePageRenderImage return at once
            THEN /\ calls' = Finished(c, "ok", "returned", imageUrl)
                 /\ sceneRefsInjected' = (sceneRefsInjected \/ Len(calls[c].styleRefs) > 0)
                 /\ Commit([Cur EXCEPT !.pageRenders =
                               SetRender(pageRenders, pageNumber, NormalizedUrl(imageUrl), "prompt")])
                 /\ LoadingEnd("ok")
            ELSE /\ calls' = [calls EXCEPT ![c].pc = "compress", ![c].gateway = "returned",
                                           ![c].imageUrl = imageUrl]
                 /\ UNCHANGED <<projVars, sceneRefsInjected, uiVars>>

\* handleGenerateCharacterImage after generateWorkshopImage returned imageUrl.
CharAfterImage(c, imageUrl) ==
    /\ sceneRefsInjected' = (sceneRefsInjected \/ Len(calls[c].styleRefs) > 0)
    /\ IF imageUrl = NoUrl
       \* pushToKnowledgeBase returns undefined at once: parseDataUrl('') is null
       THEN /\ calls' = Finished(c, "ok", "returned", imageUrl)
            /\ Commit([Cur EXCEPT !.characters =
                   [i \in 1..Len(characters) |->
                       IF characters[i].id = calls[c].charId
                       THEN [characters[i] EXCEPT !.imageUrl = imageUrl, !.lastUsedPrompt = "prompt"]
                       ELSE characters[i]]])
            /\ LoadingEnd("ok")
       ELSE /\ calls' = [calls EXCEPT ![c].pc = "kbcompress", ![c].gateway = "returned",
                                      ![c].imageUrl = imageUrl]
            /\ UNCHANGED <<projVars, uiVars>>

\* chat.sendMessage resolves for an image call: the rest of
\* generateWorkshopImage and the caller's continuation up to its next await.
generateWorkshopImage(c, response) ==
    /\ calls[c].kind \in {"charimg", "page"} /\ calls[c].pc = "api"
    /\ workshopHistory' = PushTurns(workshopHistory, c, calls[c].parts, response)
    /\ IF ImageThrows(c, response)
       THEN /\ FailCall(c, "threw", TextError(response))
            /\ UNCHANGED <<projVars, sceneRefsInjected>>
       ELSE IF calls[c].kind = "page"
            THEN PageAfterImage(c, ResponseImageUrl(c, response))
            ELSE CharAfterImage(c, ResponseImageUrl(c, response))
    /\ UNCHANGED <<renderRequestIdRef, sceneReferences, historyClearedAt, kbVars, assetStore, nextId, hydrations,
                   loads, chatVars>>

\* The model call of any stage rejects.
ModelCallRejects(c, error) ==
    /\ calls[c].kind \in {"analysis", "storyboard", "charimg", "page"} /\ calls[c].pc = "api"
    /\ FailCall(c, "rejected", error)
    /\ UNCHANGED <<projVars, renderRequestIdRef, sceneReferences, historyClearedAt, kbVars, sceneRefsInjected,
                   workshopHistory, assetStore, nextId, hydrations, loads, chatVars>>

\* compressDataUrl settles for a page render; savePageRenderImage starts.
PageCompressDone(c, ok) ==
    /\ calls[c].kind = "page" /\ calls[c].pc = "compress"
    /\ IF ok
       THEN /\ calls' = [calls EXCEPT ![c].pc = "save",
                            ![c].normalizedUrl = NormalizedUrl(calls[c].imageUrl)]
            /\ UNCHANGED uiVars
       ELSE FailCall(c, "returned", [status |-> 0, notFound |-> FALSE])
    /\ UNCHANGED <<projVars, renderRequestIdRef, sceneReferences, historyClearedAt, kbVars, sceneRefsInjected,
                   workshopHistory, assetStore, nextId, hydrations, loads, chatVars>>

\* savePageRenderImage settles; the render is committed.
PageSaveDone(c, ok) ==
    /\ calls[c].kind = "page" /\ calls[c].pc = "save"
    /\ IF ok
       THEN /\ assetStore' = [assetStore EXCEPT ![<<calls[c].sid, calls[c].page>>] =
                                 calls[c].normalizedUrl]
            /\ sceneRefsInjected' = (sceneRefsInjected \/ Len(calls[c].styleRefs) > 0)
            /\ Commit([Cur EXCEPT !.pageRenders =
                          SetRender(pageRenders, calls[c].page, calls[c].normalizedUrl, "prompt")])
            /\ calls' = Done(c, "ok")
            /\ LoadingEnd("ok")
       ELSE /\ FailCall(c, "returned", [status |-> 0, notFound |-> FALSE])
            /\ UNCHANGED <<assetStore, sceneRefsInjected, projVars>>
    /\ UNCHANGED <<renderRequestIdRef, sceneReferences, historyClearedAt, kbVars, workshopHistory, nextId, hydrations,
                   loads, chatVars>>


\* ------------------------------------------------------- character images
\* entities.find(entity => entity.name === stripAtName(char.name) && base64 && mimeType)
MatchedEntityRefs(ents, char) ==
    LET match == SelectSeq(ents, LAMBDA e :
                     e.name = stripAtName(char.name) /\ e.base64 # 0 /\ e.mimeType # "")
    IN IF match = <<>> THEN <<>>
       ELSE <<[data |-> match[1].base64, mimeType |-> match[1].mimeType, name |-> char.name]>>

\* handleGenerateCharacterImage up to `await chat.sendMessage` inside
\* generateWorkshopImage; the button exists for characters of the list only.
handleGenerateCharacterImage(i) ==
    /\ nextId <= MaxCalls
    /\ i \in 1..Len(characters)
    /\ LET c == nextId
           char == characters[i]
           refImages == MatchedEntityRefs(entities, char)
           styleRefsToInject == StyleRefsToInject(sceneRefsInjected, sceneReferences)
       IN calls' = [calls EXCEPT ![c] =
              [NoCall EXCEPT !.kind = "charimg", !.pc = "api", !.charId = char.id,
                             !.name = char.name, !.sid = sessionId,
                             !.charRefs = refImages, !.styleRefs = styleRefsToInject,
                             !.parts = WorkshopParts(CharPrompt(char.name), refImages,
                                                     styleRefsToInject, workshopHistory)]]
    /\ nextId' = nextId + 1
    /\ LoadingStart
    /\ UNCHANGED <<projVars, renderRequestIdRef, sceneReferences, historyClearedAt, kbVars, sceneRefsInjected,
                   workshopHistory, assetStore, hydrations, loads, chatVars>>

\* setEntities(prev => ...) of pushToKnowledgeBase
UpsertEntity(prev, id, name, parsed) ==
    LET existing == SelectSeq(prev, LAMBDA e : e.name = name)
        updated == [id |-> IF existing = <<>> THEN id ELSE existing[1].id,
                    name |-> name, base64 |-> parsed.base64, mimeType |-> parsed.mimeType]
    IN IF existing # <<>>
       THEN [j \in 1..Len(prev) |-> IF prev[j].name = name THEN updated ELSE prev[j]]
       ELSE <<updated>> \o prev

\* pushToKnowledgeBase: compressDataUrl settles, the catalog is updated and
\* the save request is sent.
CharCompressDone(c, ok) ==
    /\ calls[c].kind = "charimg" /\ calls[c].pc = "kbcompress"
    /\ IF ok
       THEN LET normalizedUrl == NormalizedUrl(calls[c].imageUrl)
            IN /\ calls' = [calls EXCEPT ![c].pc = "kbpersist", ![c].normalizedUrl = normalizedUrl]
               /\ Commit([Cur EXCEPT !.entities =
                     UpsertEntity(entities, 300 + c, stripAtName(calls[c].name),
                                  parseDataUrl(normalizedUrl))])
               /\ UNCHANGED uiVars
       ELSE /\ FailCall(c, "returned", [status |-> 0, notFound |-> FALSE])
            /\ UNCHANGED projVars
    /\ UNCHANGED <<renderRequestIdRef, sceneReferences, historyClearedAt, kbVars, sceneRefsInjected, workshopHistory,
                   assetStore, nextId, hydrations, loads, chatVars>>

\* A save whose failure reaches withLoading's catch.
CharPersistDoneThrows(c, ok) ==
    /\ calls[c].kind = "charimg" /\ calls[c].pc = "kbpersist"
    /\ IF ok
       THEN /\ Commit([Cur EXCEPT !.characters =
                  [i \in 1..Len(characters) |->
                      IF characters[i].id = calls[c].charId
                      THEN [characters[i] EXCEPT !.imageUrl = calls[c].normalizedUrl,
                                                 !.lastUsedPrompt = "prompt"]
                      ELSE characters[i]]])
            /\ calls' = [Done(c, "ok") EXCEPT ![c].saved = "yes"]
            /\ LoadingEnd("ok")
       ELSE /\ calls' = [Finished(c, "error", calls[c].gateway, calls[c].imageUrl)
                           EXCEPT ![c].saved = "no"]
            /\ LoadingEnd("error")
            /\ UNCHANGED projVars
    /\ UNCHANGED <<renderRequestIdRef, sceneReferences, historyClearedAt, kbVars, sceneRefsInjected, workshopHistory,
                   assetStore, nextId, hydrations, loads, chatVars>>

\* persistToLocalKnowledgeBase settles, saved or not (its failure is caught
\* and logged); the character takes the portrait.
CharPersistDone(c, ok) ==
    /\ calls[c].kind = "charimg" /\ calls[c].pc = "kbpersist"
    /\ Commit([Cur EXCEPT !.characters =
           [i \in 1..Len(characters) |->
               IF characters[i].id = calls[c].charId
               THEN [characters[i] EXCEPT
                        !.imageUrl = IF calls[c].normalizedUrl # NoUrl
                                     THEN calls[c].normalizedUrl ELSE calls[c].imageUrl,
                        !.lastUsedPrompt = "prompt"]
               ELSE characters[i]]])
    /\ calls' = [Done(c, "ok") EXCEPT ![c].saved = IF ok THEN "yes" ELSE "no"]
    /\ LoadingEnd("ok")
    /\ UNCHANGED <<renderRequestIdRef, sceneReferences, historyClearedAt, kbVars, sceneRefsInjected, workshopHistory,
                   assetStore, nextId, hydrations, loads, chatVars>>

\* handleUploadCharacterImage: the file is read and pushToKnowledgeBase is
\* at `await compressDataUrl`; no withLoading wraps an upload.
UploadedFile == [mime |-> "image/png", data |-> 109]

handleUploadCharacterImage(i) ==
    /\ nextId <= MaxCalls
    /\ i \in 1..Len(characters)
    /\ calls' = [calls EXCEPT ![nextId] =
           [NoCall EXCEPT !.kind = "upload", !.pc = "kbcompress", !.charId = characters[i].id,
                          !.name = characters[i].name, !.sid = sessionId,
                          !.imageUrl = UploadedFile]]
    /\ nextId' = nextId + 1
    /\ UNCHANGED <<projVars, uiVars, renderRequestIdRef, sceneReferences, historyClearedAt, kbVars,
                   sceneRefsInjected, workshopHistory, assetStore, hydrations, loads, chatVars>>

\* pushToKnowledgeBase of an upload: compressDataUrl settles, the catalog is
\* updated and the save request is sent; a rejection ends the handler.
UploadCompressDone(c, ok) ==
    /\ calls[c].kind = "upload" /\ calls[c].pc = "kbcompress"
    /\ IF ok
       THEN LET normalizedUrl == NormalizedUrl(calls[c].imageUrl)
            IN /\ calls' = [calls EXCEPT ![c].pc = "kbpersist", ![c].normalizedUrl = normalizedUrl]
               /\ Commit([Cur EXCEPT !.entities =
                     UpsertEntity(entities, 300 + c, stripAtName(calls[c].name),
                                  parseDataUrl(normalizedUrl))])
       ELSE /\ calls' = Finished(c, "error", "", calls[c].imageUrl)
            /\ UNCHANGED projVars
    /\ UNCHANGED <<uiVars, renderRequestIdRef, sceneReferences, historyClearedAt, kbVars, sceneRefsInjected,
                   workshopHistory, assetStore, nextId, hydrations, loads, chatVars>>

\* The save request of an upload settles, saved or not; the character takes
\* the uploaded image.
UploadPersistDone(c, ok) ==
    /\ calls[c].kind = "upload" /\ calls[c].pc = "kbpersist"
    /\ Commit([Cur EXCEPT !.characters =
           [i \in 1..Len(characters) |->
               IF characters[i].id = calls[c].charId
               THEN [characters[i] EXCEPT
                        !.imageUrl = IF calls[c].normalizedUrl # NoUrl
                                     THEN calls[c].normalizedUrl ELSE calls[c].imageUrl,
                        !.lastUsedPrompt = "upload"]
               ELSE characters[i]]])
    /\ calls' = [Finished(c, "ok", "", calls[c].imageUrl) EXCEPT ![c].saved = IF ok THEN "yes" ELSE "no"]
    /\ UNCHANGED <<uiVars, renderRequestIdRef, sceneReferences, historyClearedAt, kbVars, sceneRefsInjected,
                   workshopHistory, assetStore, nextId, hydrations, loads, chatVars>>

\* ------------------------------------------------- extraction, storyboard
\* handleTextAnalysis up to `await extractWorkshopEntities`.
handleTextAnalysis ==
    /\ IF novelText = NoText
       THEN /\ LoadingStartEnd
            /\ UNCHANGED <<calls, nextId>>
       ELSE /\ nextId <= MaxCalls
            /\ calls' = [calls EXCEPT ![nextId] =
                   [NoCall EXCEPT !.kind = "analysis", !.pc = "api", !.sid = sessionId,
                                  !.parts = ExtractPrompt(novelText)]]
            /\ nextId' = nextId + 1
            /\ LoadingStart
    /\ UNCHANGED <<projVars, renderRequestIdRef, sceneReferences, historyClearedAt, kbVars, sceneRefsInjected,
                   workshopHistory, assetStore, hydrations, loads, chatVars>>

\* An extraction that commits characters and items and keeps the later
\* stages as they were.
TextAnalysisDoneKeeps(c, result) ==
    /\ calls[c].kind = "analysis" /\ calls[c].pc = "api"
    /\ Commit([Cur EXCEPT
           !.characters = [i \in 1..Len(result.characters) |->
                              Character(CharId(c, i - 1), ensureAtName(result.characters[i].name),
                                        NoUrl, "")],
           !.items = result.items,
           !.step = "analysis"])
    /\ calls' = Done(c, "ok")
    /\ LoadingEnd("ok")
    /\ UNCHANGED <<renderRequestIdRef, sceneReferences, historyClearedAt, kbVars, sceneRefsInjected, workshopHistory,
                   assetStore, nextId, hydrations, loads, chatVars>>

\* extractWorkshopEntities resolves.
TextAnalysisDone(c, result) ==
    /\ calls[c].kind = "analysis" /\ calls[c].pc = "api"
    /\ Commit([Cur EXCEPT
           !.characters = [i \in 1..Len(result.characters) |->
                              Character(CharId(c, i - 1), ensureAtName(result.characters[i].name),
                                        NoUrl, "")],
           !.items = result.items,
           !.storyboard = <<>>,
           !.pageRenders = NoRenders,
           !.step = "analysis"])
    /\ calls' = Done(c, "ok")
    /\ LoadingEnd("ok")
    /\ UNCHANGED <<renderRequestIdRef, sceneReferences, historyClearedAt, kbVars, sceneRefsInjected, workshopHistory,
                   assetStore, nextId, hydrations, loads, chatVars>>

\* handleGenerateStoryboard up to `await generateWorkshopStoryboard`.
handleGenerateStoryboard ==
    /\ nextId <= MaxCalls
    /\ calls' = [calls EXCEPT ![nextId] =
           [NoCall EXCEPT !.kind = "storyboard", !.pc = "api", !.sid = sessionId,
                          !.parts = StoryboardPrompt(novelText, characters)]]
    /\ nextId' = nextId + 1
    /\ LoadingStart
    /\ UNCHANGED <<projVars, renderRequestIdRef, sceneReferences, historyClearedAt, kbVars, sceneRefsInjected,
                   workshopHistory, assetStore, hydrations, loads, chatVars>>

\* generateWorkshopStoryboard resolves.
StoryboardDone(c, scenes) ==
    /\ calls[c].kind = "storyboard" /\ calls[c].pc = "api"
    /\ Commit([Cur EXCEPT !.storyboard = scenes, !.pageRenders = NoRenders,
                          !.step = "storyboard"])
    /\ calls' = Done(c, "ok")
    /\ LoadingEnd("ok")
    /\ UNCHANGED <<renderRequestIdRef, sceneReferences, historyClearedAt, kbVars, sceneRefsInjected, workshopHistory,
                   assetStore, nextId, hydrations, loads, chatVars>>

\* The textarea: the novel text is typed or cleared.
SetNovelText(text) ==
    /\ text # novelText
    /\ Commit([Cur EXCEPT !.novelText = text])
    /\ UNCHANGED <<uiVars, renderRequestIdRef, sceneReferences, historyClearedAt, kbVars, sceneRefsInjected,
                   workshopHistory, assetStore, calls, nextId, hydrations, loads, chatVars>>

\* ------------------------------------------------------- history, sessions
\* handleClearHistory: resetWorkshopHistory(); setSceneRefsInjected(false);
\* setHistoryClearedAt(Date.now()).  Time is counted in ids handed out: the
\* clear is stamped with the id the next operation will take.
handleClearHistory ==
    /\ workshopHistory' = <<>>
    /\ sceneRefsInjected' = FALSE
    /\ historyClearedAt' = nextId
    /\ UNCHANGED <<projVars, uiVars, renderRequestIdRef, sceneReferences, kbVars, assetStore,
                   calls, nextId, hydrations, loads, chatVars>>

\* loadSession(id) with hydratePageRenders started, as the activate listener
\* runs it for a stored session other than the current one.
loadSession(id) ==
    /\ loads < MaxLoads
    /\ id # sessionId
    /\ textStore[id] # NoSnapshot
    /\ LET data == textStore[id]
       IN /\ Commit([step |-> data.step, novelText |-> data.novelText,
                     characters |-> [i \in 1..Len(data.characters) |->
                                        [data.characters[i] EXCEPT
                                            !.name = ensureAtName(data.characters[i].name)]],
                     items |-> data.items, storyboard |-> data.storyboard,
                     pageRenders |-> data.pageRenders, sessionId |-> id,
                     entities |-> entities])
          /\ hydrations' = IF DOMAIN data.pageRenders = {} THEN hydrations
                           ELSE hydrations \cup
                                {[sid |-> id, pc |-> "read",
                                  entries |-> [p \in DOMAIN data.pageRenders |-> NoUrl]]}
    /\ loads' = loads + 1
    /\ UNCHANGED <<uiVars, renderRequestIdRef, sceneReferences, historyClearedAt, kbVars, sceneRefsInjected,
                   workshopHistory, assetStore, calls, nextId, chatVars>>

\* The session panel's createSession: an empty session is stored and
\* activated, and the listener loads it.
createSession(id) ==
    /\ textStore[id] = NoSnapshot
    /\ Commit([step |-> "input", novelText |-> NoText, characters |-> <<>>, items |-> <<>>,
               storyboard |-> <<>>, pageRenders |-> NoRenders, sessionId |-> id,
               entities |-> entities])
    /\ UNCHANGED <<uiVars, renderRequestIdRef, sceneReferences, historyClearedAt, kbVars, sceneRefsInjected,
                   workshopHistory, assetStore, calls, nextId, hydrations, loads, chatVars>>

\* getPageRenderImage: the asset store serves the reads of a hydration.
HydrateRead(h) ==
    /\ h \in hydrations /\ h.pc = "read"
    /\ hydrations' = (hydrations \ {h}) \cup
           {[h EXCEPT !.pc = "apply",
                      !.entries = [p \in DOMAIN h.entries |-> assetStore[<<h.sid, p>>]]]}
    /\ UNCHANGED <<projVars, uiVars, renderRequestIdRef, sceneReferences, historyClearedAt, kbVars, sceneRefsInjected,
                   workshopHistory, assetStore, calls, nextId, loads, chatVars>>

\* hydratePageRenders after Promise.all: setPageRenders(prev => ...)
HydratedRenders(prev, entries) ==
    [p \in (DOMAIN prev) \cup {q \in DOMAIN entries : entries[q] # NoUrl} |->
        IF p \in DOMAIN entries /\ entries[p] # NoUrl
           /\ ~(p \in DOMAIN prev /\ prev[p].imageUrl # NoUrl)
        THEN [imageUrl |-> entries[p],
              lastUsedPrompt |-> IF p \in DOMAIN prev THEN prev[p].lastUsedPrompt ELSE ""]
        ELSE prev[p]]

HydrateApply(h) ==
    /\ h \in hydrations /\ h.pc = "apply"
    /\ hydrations' = hydrations \ {h}
    /\ Commit([Cur EXCEPT !.pageRenders = HydratedRenders(pageRenders, h.entries)])
    /\ UNCHANGED <<uiVars, renderRequestIdRef, sceneReferences, historyClearedAt, kbVars, sceneRefsInjected,
                   workshopHistory, assetStore, calls, nextId, loads, chatVars>>

\* ----------------------------------------------------------- the workshop
NextDispatch ==
    \/ \E p \in Pages : handleGeneratePageImage(p)
    \/ \E c \in CallIds : PageDeleteDone(c)
    \/ \E c \in CallIds : \E r \in ImageResponses : generateWorkshopImage(c, r)
    \/ \E c \in CallIds : \E e \in Errors : ModelCallRejects(c, e)
    \/ \E c \in CallIds : \E ok \in BOOLEAN : PageCompressDone(c, ok)
    \/ \E c \in CallIds : \E ok \in BOOLEAN : PageSaveDone(c, ok)
    \/ \E i \in 1..2 : handleGenerateCharacterImage(i)
    \/ \E c \in CallIds : \E ok \in BOOLEAN : CharCompressDone(c, ok)
    \/ \E c \in CallIds : \E ok \in BOOLEAN : CharPersistDone(c, ok)
    \/ handleClearHistory

NextHydrate ==
    \/ \E h \in hydrations : HydrateRead(h)
    \/ \E h \in hydrations : HydrateApply(h)

NextImage == NextDispatch \/ NextHydrate

NextStages ==
    \/ handleTextAnalysis
    \/ \E c \in CallIds : \E r \in ExtractResults : TextAnalysisDone(c, r)
    \/ handleGenerateStoryboard
    \/ \E c \in CallIds : \E r \in StoryboardResults : StoryboardDone(c, r)
    \/ \E t \in {NoText, NovelTxt} : SetNovelText(t)

NextSessions ==
    \/ \E id \in Sessions : loadSession(id)
    \/ \E id \in Sessions : createSession(id)

SpecImage == Init /\ [][NextImage]_vars
SpecStages == Init /\ [][NextImage \/ NextStages]_vars
SpecWorkshop == Init /\ [][NextImage \/ NextStages \/ NextSessions]_vars
SpecSessions == Init /\ [][NextImage \/ NextSessions]_vars

\* The operations that make, load and use character names: the stages, the
\* sessions, and the dispatch of portraits and pages.
NextNames ==
    \/ NextStages
    \/ NextSessions
    \/ \E p \in Pages : handleGeneratePageImage(p)
    \/ \E i \in 1..2 : handleGenerateCharacterImage(i)
    \/ \E c \in CallIds : \E r \in ImageResponses : generateWorkshopImage(c, r)
    \/ \E c \in CallIds : \E ok \in BOOLEAN : CharCompressDone(c, ok)
    \/ \E c \in CallIds : \E ok \in BOOLEAN : CharPersistDone(c, ok)

SpecNames == Init /\ [][NextNames]_vars


\* ------------------------------------------------------------------- chat
\* What the user sends: a text (a sequence of tokens) and attachments.
Attachment1 == [mimeType |-> "image/jpeg", base64 |-> 103]

ChatInputs ==
    { [text |-> <<"hi", "@", "B">>, attachments |-> <<Attachment1>>],
      [text |-> <<"draw", "@", "A">>, attachments |-> <<>>] }

\* text.includes(pattern)
Includes(text, pattern) ==
    \E i \in 0..(Len(text) - Len(pattern)) :
        \A j \in 1..Len(pattern) : text[i + j] = pattern[j]

\* Entities picked by their bare name, with or without the at sign.
MentionsByName(text, ents) == SelectSeq(ents, LAMBDA e : Includes(text, e.name))

\* entities.filter(entity => text.includes(`@${entity.name}`))
Mentions(text, ents) == SelectSeq(ents, LAMBDA e : Includes(text, <<"@">> \o e.name))

\* lowerText.match(/(draw|create|generate|paint|image|...)/)
IsImageRequest(text) ==
    \E i \in 1..Len(text) : text[i] \in {"draw", "create", "generate", "paint", "image"}

\* Array.from(new Map(mentions.map(m => [m.id, m])).values())
RECURSIVE UniqueMentions(_, _)
UniqueMentions(mentions, acc) ==
    IF mentions = <<>> THEN acc
    ELSE LET m == Head(mentions)
             hit == {j \in 1..Len(acc) : acc[j].id = m.id}
         IN UniqueMentions(Tail(mentions),
                IF hit = {} THEN Append(acc, m)
                ELSE [j \in 1..Len(acc) |-> IF j \in hit THEN m ELSE acc[j]])

\* Mentions turned into a label and an image each, with or without data.
RECURSIVE MentionSegsImageAlways(_)
MentionSegsImageAlways(ms) ==
    IF ms = <<>> THEN <<>>
    ELSE <<TextSeg("visual-reference", Head(ms).name, 0),
           ImageSeg(Head(ms).mimeType, Head(ms).base64)>>
         \o MentionSegsImageAlways(Tail(ms))

RECURSIVE MentionSegs(_)
MentionSegs(ms) ==
    IF ms = <<>> THEN <<>>
    ELSE LET m == Head(ms)
         IN <<TextSeg("visual-reference", m.name, 0),
              IF m.base64 # 0 THEN ImageSeg(m.mimeType, m.base64)
              ELSE TextSeg("offline-note", m.name, 0)>>
            \o MentionSegs(Tail(ms))

\* Parts assembled with the user's text put first.
ChatPartsTextFirst(text, attachments, mentions) ==
    (IF text # <<>> THEN <<TextSeg("user-text", text, 0)>> ELSE <<>>)
    \o (IF Len(mentions) > 0
        THEN <<TextSeg("injection-begin", <<>>, 0)>>
             \o MentionSegs(UniqueMentions(mentions, <<>>))
             \o <<TextSeg("injection-end", <<>>, 0)>>
        ELSE <<>>)
    \o [i \in 1..Len(attachments) |-> ImageSeg(attachments[i].mimeType, attachments[i].base64)]

\* The parts GeminiService.sendMessage assembles before the call.
ChatParts(text, attachments, mentions) ==
    (IF Len(mentions) > 0
     THEN <<TextSeg("injection-begin", <<>>, 0)>>
          \o MentionSegs(UniqueMentions(mentions, <<>>))
          \o <<TextSeg("injection-end", <<>>, 0)>>
     ELSE <<>>)
    \o [i \in 1..Len(attachments) |-> ImageSeg(attachments[i].mimeType, attachments[i].base64)]
    \o (IF text # <<>> THEN <<TextSeg("user-text", text, 0)>> ELSE <<>>)

\* GeminiService.getHistory as the session contract describes it: a copy.
getHistory(h) == h

ChatMessage(role, c, isError, nparts) ==
    [role |-> role, call |-> c, isError |-> isError, nparts |-> nparts]

\* A fallback turn without the error flag.
FallbackTurnPlain(c) == ChatMessage("model", c, FALSE, 1)

\* The fallback turn handleSendMessage shows for a generic failure.
FallbackTurn(c) == ChatMessage("model", c, TRUE, 1)

\* What the chat model may answer: a candidate content or none, its usable
\* parts, and the text property.
ChatResponses ==
    { r \in [content : BOOLEAN, parts : {"none", "text", "image"}, text : BOOLEAN] :
        /\ r.parts # "none" => r.content
        /\ r.parts = "text" => r.text }

\* responseParts.length: the parts copied, or the text fallback
ResponsePartCount(r) ==
    IF r.parts # "none" THEN 1 ELSE IF r.text THEN 1 ELSE 0

\* handleSendMessage up to `await chat.sendMessage` inside the service.
handleSendMessage(input) ==
    /\ nextChat <= MaxChats
    /\ LET c == nextChat
           mentions == Mentions(input.text, entities)
       IN /\ chats' = [chats EXCEPT ![c] =
                 [pc |-> "api", gateway |-> "", outcome |-> "", text |-> input.text,
                  parts |-> ChatParts(input.text, input.attachments, mentions),
                  inject |-> IsImageRequest(input.text) /\ Len(sceneReferences) > 0
                             /\ ~sceneRefsInjected]]
          /\ messages' = Append(messages,
                 ChatMessage("user", c, FALSE,
                             Len(input.attachments) + (IF input.text # <<>> THEN 1 ELSE 0)))
    /\ nextChat' = nextChat + 1
    /\ isLoading' = TRUE
    /\ UNCHANGED <<history, historySnapshot, projVars, uiVars, renderRequestIdRef,
                   sceneReferences, historyClearedAt, kbVars, sceneRefsInjected, workshopHistory, assetStore, calls,
                   nextId, hydrations, loads>>

\* chat.sendMessage resolves: the rest of sendMessage and of the handler.
sendMessage(c, response) ==
    /\ chats[c].pc = "api"
    /\ history' = PushTurns(history, c, chats[c].parts, response)
    /\ messages' = Append(messages, ChatMessage("model", c, FALSE, ResponsePartCount(response)))
    /\ sceneRefsInjected' = (sceneRefsInjected \/ chats[c].inject)
    /\ historySnapshot' = getHistory(history')
    /\ isLoading' = FALSE
    /\ chats' = [chats EXCEPT ![c] = [NoChat EXCEPT !.pc = "done", !.gateway = "returned", !.outcome = "ok"]]
    /\ UNCHANGED <<nextChat, projVars, uiVars, renderRequestIdRef, sceneReferences, historyClearedAt, kbVars,
                   workshopHistory, assetStore, calls, nextId, hydrations, loads>>

\* chat.sendMessage rejects: the catch of sendMessage and of the handler.
sendMessageRejects(c, error) ==
    /\ chats[c].pc = "api"
    /\ LET apiKeyInvalid == IsInvalidCredential(error)
       IN /\ onErrorCount' = IF apiKeyInvalid THEN onErrorCount + 1 ELSE onErrorCount
          /\ messages' = IF apiKeyInvalid THEN messages
                         ELSE Append(messages, FallbackTurn(c))
    /\ isLoading' = FALSE
    /\ chats' = [chats EXCEPT ![c] = [NoChat EXCEPT !.pc = "done", !.gateway = "rejected",
                                                    !.outcome = ErrorOutcome(error)]]
    /\ UNCHANGED <<history, historySnapshot, nextChat, projVars, loading, errorMessage,
                   renderRequestIdRef, sceneReferences, historyClearedAt, kbVars, sceneRefsInjected, workshopHistory,
                   assetStore, calls, nextId, hydrations, loads>>

NextChat ==
    \/ \E input \in ChatInputs : handleSendMessage(input)
    \/ \E c \in ChatIds : \E r \in ChatResponses : sendMessage(c, r)
    \/ \E c \in ChatIds : \E e \in Errors : sendMessageRejects(c, e)

\* Spec: the two conversations, chat and workshop, side by side.
Spec == Init /\ [][NextDispatch \/ NextChat]_vars

\* ------------------------------------------------------ the entity catalog
Entity(id, name, base64, mimeType) ==
    [id |-> id, name |-> name, base64 |-> base64, mimeType |-> mimeType]

\* What the add form may hold: a trimmed, non-empty name and a picked image.
AddForms ==
    { [name |-> <<"A">>, base64 |-> 106, mimeType |-> "image/jpeg"],
      [name |-> <<"C">>, base64 |-> 107, mimeType |-> "image/jpeg"] }

\* handleAddEntity: setEntities(prev => [newEntity, ...prev])
handleAddEntity(form) ==
    /\ adds < MaxAdds
    /\ Commit([Cur EXCEPT !.entities =
           <<Entity(400 + adds, form.name, form.base64, form.mimeType)>> \o entities])
    /\ adds' = adds + 1
    /\ UNCHANGED <<uiVars, renderRequestIdRef, sceneReferences, historyClearedAt,
                   sceneRefsInjected, isScanning, scans, workshopHistory, assetStore, calls,
                   nextId, hydrations, loads, chatVars>>

\* What processDiscoveredEntity delivers for the manifest and folder
\* entries: an entity with its image, or one without (the fetch failed).
\* An entity has a preview exactly when it has an image.
ScanResults ==
    { <<Entity(501, <<"A">>, 104, "image/jpeg"), Entity(502, <<"A">>, 105, "image/jpeg")>>,
      <<Entity(503, <<"A">>, 0, ""), Entity(504, <<"C">>, 108, "image/jpeg")>> }

\* uniqueMap.set(item.name, item): a name seen before keeps its position.
MapSet(acc, item) ==
    IF \E j \in 1..Len(acc) : acc[j].name = item.name
    THEN [j \in 1..Len(acc) |-> IF acc[j].name = item.name THEN item ELSE acc[j]]
    ELSE Append(acc, item)

\* The merge of scanKnowledgeBase: the entities held, then the results,
\* a result replacing a held entity only when it has a preview.
RECURSIVE MergeScan(_, _, _)
MergeScan(acc, prev, results) ==
    IF prev # <<>> THEN MergeScan(MapSet(acc, Head(prev)), Tail(prev), results)
    ELSE IF results = <<>> THEN acc
    ELSE LET item == Head(results)
             held == \E j \in 1..Len(acc) : acc[j].name = item.name
         IN MergeScan(IF ~held \/ item.base64 # 0 THEN MapSet(acc, item) ELSE acc,
                      prev, Tail(results))

\* scanKnowledgeBase up to its fetches; the button is disabled while scanning.
scanKnowledgeBase ==
    /\ ~isScanning
    /\ scans < MaxScans
    /\ isScanning' = TRUE
    /\ scans' = scans + 1
    /\ UNCHANGED <<projVars, uiVars, renderRequestIdRef, sceneReferences, historyClearedAt,
                   sceneRefsInjected, adds, workshopHistory, assetStore, calls, nextId,
                   hydrations, loads, chatVars>>

\* The fetches settle: setEntities(prev => merge) and the finally.
ScanDone(results) ==
    /\ isScanning
    /\ Commit([Cur EXCEPT !.entities = MergeScan(<<>>, entities, results)])
    /\ isScanning' = FALSE
    /\ UNCHANGED <<uiVars, renderRequestIdRef, sceneReferences, historyClearedAt,
                   sceneRefsInjected, adds, scans, workshopHistory, assetStore, calls, nextId,
                   hydrations, loads, chatVars>>

NextCatalog ==
    \/ \E form \in AddForms : handleAddEntity(form)
    \/ scanKnowledgeBase
    \/ \E results \in ScanResults : ScanDone(results)

\* The portrait operations, which write the catalog too.
NextPortrait ==
    \/ \E i \in 1..2 : handleGenerateCharacterImage(i)
    \/ \E c \in CallIds : \E r \in ImageResponses : generateWorkshopImage(c, r)
    \/ \E c \in CallIds : \E e \in Errors : ModelCallRejects(c, e)
    \/ \E c \in CallIds : \E ok \in BOOLEAN : CharCompressDone(c, ok)
    \/ \E c \in CallIds : \E ok \in BOOLEAN : CharPersistDone(c, ok)

NextUpload ==
    \/ \E i \in 1..2 : handleUploadCharacterImage(i)
    \/ \E c \in CallIds : \E ok \in BOOLEAN : UploadCompressDone(c, ok)
    \/ \E c \in CallIds : \E ok \in BOOLEAN : UploadPersistDone(c, ok)

SpecPortrait == Init /\ [][NextPortrait \/ NextUpload]_vars

SpecCatalog == Init /\ [][NextCatalog \/ NextPortrait]_vars

\* ------------------------------------------------- mentions of any catalog
\* Catalog entries the scan, the add form and the local cache can leave: with
\* and without image, names differing in case only, one name a prefix of
\* another, one name twice.
CatalogPool ==
    { CatalogA, CatalogB,
      Entity(204, <<"a">>, 102, "image/png"),
      Entity(205, <<"A", "B">>, 106, "image/png"),
      Entity(401, <<"A">>, 107, "image/png") }

MaxCatalog == 2

Catalogs ==
    { cat \in UNION {[1..n -> CatalogPool] : n \in 0..MaxCatalog} :
        \A i, j \in 1..Len(cat) : i # j => cat[i] # cat[j] }

\* Texts with no mention, a bare name, a repeated mention, a mention of a
\* longer name, and a lower-case mention; the empty text goes with an
\* attachment.
MentionInputs ==
    { [text |-> <<>>, attachments |-> <<Attachment1>>],
      [text |-> <<"hi", "A">>, attachments |-> <<>>],
      [text |-> <<"@", "A", "and", "@", "A">>, attachments |-> <<>>],
      [text |-> <<"@", "A", "B">>, attachments |-> <<>>],
      [text |-> <<"@", "a", "@", "B">>, attachments |-> <<Attachment1>>] }

NextMentions ==
    \/ \E input \in MentionInputs : handleSendMessage(input)
    \/ \E c \in ChatIds : \E r \in ChatResponses : sendMessage(c, r)
    \/ \E c \in ChatIds : \E e \in Errors : sendMessageRejects(c, e)

InitMentions == Mounted /\ entities \in Catalogs

SpecMentions == InitMentions /\ [][NextMentions]_vars

\* ------------------------------------------------ long texts at the stages
\* Lengths below, at and above the two budgets.
NovelLengths ==
    {3, StoryboardBudget - 1, StoryboardBudget, StoryboardBudget + 1,
     ExtractBudget, ExtractBudget + 1}

NovelTexts == {TextOfLen(n) : n \in NovelLengths}

NextBudget ==
    \/ handleTextAnalysis
    \/ \E c \in CallIds : \E r \in ExtractResults : TextAnalysisDone(c, r)
    \/ handleGenerateStoryboard
    \/ \E c \in CallIds : \E r \in StoryboardResults : StoryboardDone(c, r)
    \/ \E c \in CallIds : \E e \in Errors : ModelCallRejects(c, e)

InitBudget ==
    /\ \E t \in NovelTexts : MountedOn([StagedProject EXCEPT !.novelText = t], TRUE)
    /\ entities = <<CatalogA, CatalogB>>

SpecBudget == InitBudget /\ [][NextBudget]_vars

\* ------------------------------------------------ pages of any storyboard
\* Casts: A with a portrait and B with or without one; the catalog holds
\* what the portraits pushed.
PageCasts ==
    { StagedProject.characters,
      <<StagedProject.characters[1],
        Character(CharId(0, 1), <<"@", "B">>, [mime |-> "image/png", data |-> 102], "prompt")>> }

CastCatalog(cast) ==
    [k \in 1..Len(cast) |->
        Entity(200 + k, stripAtName(cast[k].name), cast[k].imageUrl.data, cast[k].imageUrl.mime)]

\* Storyboards: both characters on page 1; B on page 1 and A, named without
\* the at sign, on page 2; a page 1 without characters and both on page 2.
PageStoryboards ==
    { StagedProject.storyboard,
      <<Scene(1, 1, <<<<"@", "B">>>>), Scene(2, 1, <<<<"A">>>>)>>,
      <<Scene(1, 1, <<>>), Scene(2, 1, <<<<"@", "A">>>>), Scene(2, 2, <<<<"B">>>>)>> }

InitPages ==
    \E sb \in PageStoryboards : \E cast \in PageCasts :
        /\ MountedOn([StagedProject EXCEPT !.storyboard = sb, !.characters = cast], TRUE)
        /\ entities = CastCatalog(cast)

NextPages ==
    \/ \E p \in Pages : handleGeneratePageImage(p)
    \/ \E c \in CallIds : PageDeleteDone(c)
    \/ \E c \in CallIds : \E r \in ImageResponses : generateWorkshopImage(c, r)
    \/ \E c \in CallIds : \E e \in Errors : ModelCallRejects(c, e)
    \/ \E c \in CallIds : \E ok \in BOOLEAN : PageCompressDone(c, ok)
    \/ \E c \in CallIds : \E ok \in BOOLEAN : PageSaveDone(c, ok)

SpecPages == InitPages /\ [][NextPages]_vars

\* ------------------------------------------------ the triggers and the tab
\* disabled={loading} of the stage buttons: while it holds no stage handler
\* can be entered from the page.
StageTriggersDisabled == loading

\* The user leaves the workshop tab and comes back: App unmounts ComicStudio
\* and mounts a new one.  The new component starts from its useState values
\* and a new renderRequestIdRef, and its mount effect loads the active
\* session from the text store and starts its hydration.  What the old
\* component awaited stays in flight, detached from the page (pc "orphan");
\* its further steps are not followed here.
remountComicStudio ==
    /\ LET data == textStore[sessionId]
       IN /\ Commit([step |-> data.step, novelText |-> data.novelText,
                     characters |-> [i \in 1..Len(data.characters) |->
                                        [data.characters[i] EXCEPT
                                            !.name = ensureAtName(data.characters[i].name)]],
                     items |-> data.items, storyboard |-> data.storyboard,
                     pageRenders |-> data.pageRenders, sessionId |-> sessionId,
                     entities |-> entities])
          /\ hydrations' = IF DOMAIN data.pageRenders = {} THEN {}
                           ELSE {[sid |-> sessionId, pc |-> "read",
                                  entries |-> [p \in DOMAIN data.pageRenders |-> NoUrl]]}
    /\ loading' = FALSE
    /\ errorMessage' = ""
    /\ onErrorCount' = onErrorCount
    /\ renderRequestIdRef' = [p \in Pages |-> 0]
    /\ historyClearedAt' = 0
    /\ calls' = [c \in CallIds |->
                    IF calls[c].pc \in {"idle", "done"} THEN calls[c]
                    ELSE [calls[c] EXCEPT !.pc = "orphan"]]
    /\ UNCHANGED <<sceneReferences, kbVars, sceneRefsInjected, workshopHistory, assetStore, nextId,
                   loads, chatVars>>

\* The workshop as the page drives it: stage handlers are entered through
\* their buttons only.
NextLoading ==
    \/ ~StageTriggersDisabled /\ handleTextAnalysis
    \/ ~StageTriggersDisabled /\ handleGenerateStoryboard
    \/ \E i \in 1..2 : ~StageTriggersDisabled /\ handleGenerateCharacterImage(i)
    \/ \E p \in Pages : ~StageTriggersDisabled /\ handleGeneratePageImage(p)
    \/ \E c \in CallIds : \E r \in ExtractResults : TextAnalysisDone(c, r)
    \/ \E c \in CallIds : \E r \in StoryboardResults : StoryboardDone(c, r)
    \/ \E c \in CallIds : PageDeleteDone(c)
    \/ \E c \in CallIds : \E r \in ImageResponses : generateWorkshopImage(c, r)
    \/ \E c \in CallIds : \E e \in Errors : ModelCallRejects(c, e)
    \/ \E c \in CallIds : \E ok \in BOOLEAN : PageCompressDone(c, ok)
    \/ \E c \in CallIds : \E ok \in BOOLEAN : PageSaveDone(c, ok)
    \/ \E c \in CallIds : \E ok \in BOOLEAN : CharCompressDone(c, ok)
    \/ \E c \in CallIds : \E ok \in BOOLEAN : CharPersistDone(c, ok)
    \/ NextHydrate
    \/ remountComicStudio

SpecLoading == Init /\ [][NextLoading]_vars

\* --------------------------------------------------- mentions in a message
\* text.indexOf(pattern, from): the first offset at or after `from` where the
\* pattern starts, -1 when there is none.
indexOf(text, pattern, from) ==
    LET hits == {i \in from..(Len(text) - Len(pattern)) :
                    \A j \in 1..Len(pattern) : text[i + j] = pattern[j]}
    IN IF hits = {} THEN -1 ELSE CHOOSE i \in hits : \A h \in hits : i <= h

\* text.slice(start, end)
slice(text, start, end) == SubSeq(text, start + 1, end)

NoEntity == [id |-> 0, name |-> <<>>, base64 |-> 0, mimeType |-> ""]

\* entities.map(entity => ({ token: `@${entity.name}`, entity }))
MentionTokens(ents) ==
    [k \in 1..Len(ents) |-> [token |-> <<"@">> \o ents[k].name, entity |-> ents[k]]]

\* The choice among tokens that start at the same offset left to the order
\* of the catalog: the first one stays.
RECURSIVE NextTokenFirst(_, _, _, _, _)
NextTokenFirst(text, tokens, cursor, k, best) ==
    IF k > Len(tokens) THEN best
    ELSE LET idx == indexOf(text, tokens[k].token, cursor)
             take == idx # -1 /\ (best.nextIndex = -1 \/ idx < best.nextIndex)
         IN NextTokenFirst(text, tokens, cursor, k + 1,
                IF take THEN [nextIndex |-> idx, nextToken |-> k] ELSE best)

\* The for loop of buildMentionChunks over tokens k, k+1, ...: nextIndex and
\* nextToken (0 for null) after it.
RECURSIVE NextToken(_, _, _, _, _)
NextToken(text, tokens, cursor, k, best) ==
    IF k > Len(tokens) THEN best
    ELSE LET idx == indexOf(text, tokens[k].token, cursor)
             bestLen == IF best.nextToken = 0 THEN 0 ELSE Len(tokens[best.nextToken].token)
             take == /\ idx # -1
                     /\ \/ best.nextIndex = -1
                        \/ idx < best.nextIndex
                        \/ idx = best.nextIndex /\ Len(tokens[k].token) > bestLen
         IN NextToken(text, tokens, cursor, k + 1,
                IF take THEN [nextIndex |-> idx, nextToken |-> k] ELSE best)

TextChunk(value) == [type |-> "text", value |-> value, entity |-> NoEntity]

\* The while loop of buildMentionChunks from the given cursor.
RECURSIVE ChunkLoop(_, _, _, _)
ChunkLoop(text, tokens, cursor, chunks) ==
    IF ~(cursor < Len(text)) THEN chunks
    ELSE LET n == NextToken(text, tokens, cursor, 1, [nextIndex |-> -1, nextToken |-> 0])
         IN IF n.nextIndex = -1 \/ n.nextToken = 0
            THEN Append(chunks, TextChunk(slice(text, cursor, Len(text))))
            ELSE ChunkLoop(text, tokens, n.nextIndex + Len(tokens[n.nextToken].token),
                     chunks
                     \o (IF n.nextIndex > cursor
                         THEN <<TextChunk(slice(text, cursor, n.nextIndex))>> ELSE <<>>)
                     \o <<[type |-> "mention", value |-> tokens[n.nextToken].token,
                           entity |-> tokens[n.nextToken].entity]>>)

buildMentionChunks(text, ents) ==
    IF text = <<>> \/ Len(ents) = 0 THEN <<TextChunk(text)>>
    ELSE ChunkLoop(text, MentionTokens(ents), 0, <<>>)

\* The chunks the message list shows for the user message of chat c while
\* its call is in flight.
RenderedChunks(c) == buildMentionChunks(chats[c].text, entities)

\* Messages of up to MaxText characters over the at sign and two letters,
\* and the empty message that goes with an attachment.
MaxText == 4

ChunkAlphabet == {"@", "A", "B"}

ChunkInputs ==
    { [text |-> t, attachments |-> IF t = <<>> THEN <<Attachment1>> ELSE <<>>] :
        t \in UNION {[1..n -> ChunkAlphabet] : n \in 0..MaxText} }

NextChunks ==
    \/ \E input \in ChunkInputs : handleSendMessage(input)
    \/ \E c \in ChatIds : \E r \in ChatResponses : sendMessage(c, r)
    \/ \E c \in ChatIds : \E e \in Errors : sendMessageRejects(c, e)

SpecChunks == InitMentions /\ [][NextChunks]_vars

\* ================================================================ properties
\* Steps of call c, read off the call records.
ImageKinds == {"charimg", "page"}

\* The model call of c ends in an error: the transport rejected, or
\* generateWorkshopImage threw the response text.
ModelCallFails(c) ==
    /\ calls[c].pc = "api" /\ calls'[c].pc = "done"
    /\ calls'[c].gateway \in {"rejected", "threw"}

\* The chat call of c ends in an error.
ChatCallFails(c) ==
    /\ chats[c].pc = "api" /\ chats'[c].pc = "done"
    /\ chats'[c].gateway = "rejected"

\* Call c hands its payload to the model on this step.
Dispatches(c) == calls[c].pc # "api" /\ calls'[c].pc = "api" /\ calls'[c].kind \in ImageKinds

StyleTurns(hist) ==
    {i \in 1..Len(hist) : hist[i].role = "user" /\ HasStyle(hist[i].parts)}

\* C1: between two history clears at most one user turn of workshopHistory
\* carries style-reference segments.
C1_AtMostOneStyleTurn == Cardinality(StyleTurns(workshopHistory)) <= 1

\* C2: a page render is committed only by the request whose id is still the
\* latest one issued for its page.
C2_CommitOnlyLatest ==
    [][\A c \in CallIds :
          (calls[c].kind = "page" /\ calls[c].pc # "done"
           /\ calls'[c].pc = "done" /\ calls'[c].outcome = "ok")
          => renderRequestIdRef[calls[c].page] = calls[c].requestId]_vars

\* C3: a dispatch that ends in an error leaves the length of its history
\* as it was, for the workshop gateway and for the chat gateway.
C3_FailureKeepsHistory ==
    [][/\ \A c \in CallIds :
             (ModelCallFails(c) /\ calls[c].kind \in ImageKinds)
             => Len(workshopHistory') = Len(workshopHistory)
       /\ \A c \in ChatIds :
             ChatCallFails(c) => Len(history') = Len(history)]_vars

\* Turns come in pairs: a user turn, then the model turn of the same call.
PairedHistory(hist) ==
    /\ Len(hist) % 2 = 0
    /\ \A i \in 1..Len(hist) :
          i % 2 = 1 => /\ hist[i].role = "user"
                       /\ hist[i + 1].role = "model"
                       /\ hist[i + 1].call = hist[i].call

\* A history changes only by a clear or by the pair of one call in flight,
\* whose user turn holds the parts that call sent.
PairAppended(old, new, inFlight, Parts(_)) ==
    new # old =>
        \/ new = <<>>
        \/ \E c \in inFlight : new = old \o <<UserTurn(c, Parts(c)), ModelTurn(c)>>

\* C4: chat history and workshop history have even length and consist of
\* user/model pairs of one dispatch each, the user turn holding the parts
\* that dispatch sent, whatever the interleaving of calls.
C4_StrictPairs ==
    /\ [](PairedHistory(history) /\ PairedHistory(workshopHistory))
    /\ [][/\ PairAppended(workshopHistory, workshopHistory',
                          {c \in CallIds : calls[c].pc = "api"},
                          LAMBDA c : calls[c].parts)
          /\ PairAppended(history, history',
                          {c \in ChatIds : chats[c].pc = "api"},
                          LAMBDA c : chats[c].parts)]_vars

\* C4 witness: both histories hold pairs, and the workshop's first pair is
\* the one of the call started second.
C4_Witness ==
    /\ Len(history) = 2
    /\ Len(workshopHistory) = 4
    /\ workshopHistory[1].call = 2
    /\ workshopHistory[3].call = 1

\* C5: when an image call whose payload carried style references ends in an
\* error the latch is left as it was, and the next payload built for a call
\* with style references to inject carries the style segments.
C5_FailureKeepsInjection ==
    [][\A c \in CallIds :
          /\ (ModelCallFails(c) /\ HasStyle(calls[c].parts))
             => sceneRefsInjected' = sceneRefsInjected
          /\ (/\ Dispatches(c)
              /\ Len(calls'[c].styleRefs) > 0
              /\ \A e \in 1..(c - 1) :
                    calls[e].pc = "done" /\ calls[e].gateway \in {"rejected", "threw"}
              /\ \E e \in 1..(c - 1) : calls[e].style)
             => HasStyle(calls'[c].parts)]_vars

\* C6: while the latest request issued for a page is outstanding the page
\* shows no image.
C6_ClearedWhileOutstanding ==
    \A p \in Pages :
        LET c == renderRequestIdRef[p]
        IN (c # 0 /\ calls[c].pc # "done")
           => (p \in DOMAIN pageRenders => pageRenders[p].imageUrl = NoUrl)

\* The steps of call c up to its model call, and the failure of that call
\* with an error that is not the invalid-credential one.
BeforeModelCall(c) == calls[c].pc \in {"idle", "delete"} /\ calls'[c] # calls[c]

GenericFailure(c) == ModelCallFails(c) /\ calls'[c].outcome = "error"

\* C7: a stage whose model call fails with a generic error leaves
\* characters, items, storyboard and step as they were before it started,
\* and errorMessage is the generic retry message.
C7_FailureLeavesStages ==
    [][\A c \in CallIds :
          /\ (BeforeModelCall(c) \/ GenericFailure(c))
             => UNCHANGED <<characters, items, storyboard, step>>
          /\ GenericFailure(c) => errorMessage' = GenericMsg]_vars

\* C7 witness: the storyboard call of a staged project has failed, the
\* message is up and the earlier storyboard is in place.
C7_Witness ==
    /\ \E c \in CallIds :
          /\ calls[c].kind = "storyboard"
          /\ calls[c].outcome = "error"
          /\ calls[c].gateway = "rejected"
    /\ \A c \in CallIds : calls[c].kind \in {"none", "storyboard"}
    /\ errorMessage = GenericMsg
    /\ characters # <<>>
    /\ storyboard # <<>>
    /\ step = "storyboard"

\* C8: a dispatch failing with the invalid-credential signal calls onError
\* once, starts no call, shows no generic failure and leaves the histories
\* as they were.
C8_InvalidCredential ==
    [][/\ \A c \in CallIds :
             (ModelCallFails(c) /\ calls'[c].outcome = "auth")
             => /\ onErrorCount' = onErrorCount + 1
                /\ nextId' = nextId
                /\ errorMessage' = errorMessage
                /\ workshopHistory' = workshopHistory
       /\ \A c \in ChatIds :
             (ChatCallFails(c) /\ chats'[c].outcome = "auth")
             => /\ onErrorCount' = onErrorCount + 1
                /\ nextChat' = nextChat
                /\ messages' = messages
                /\ history' = history]_vars

\* C9: a chat dispatch failing with a generic error appends one fallback
\* model turn flagged isError, leaves the chat history alone and ends the
\* loading state.
C9_ChatFallback ==
    [][\A c \in ChatIds :
          (ChatCallFails(c) /\ chats'[c].outcome = "error")
          => /\ Len(messages') = Len(messages) + 1
             /\ messages'[Len(messages')].role = "model"
             /\ messages'[Len(messages')].isError
             /\ SubSeq(messages', 1, Len(messages)) = messages
             /\ history' = history
             /\ isLoading' = FALSE]_vars

\* C9 witness: the chat call was rejected with a generic error and the
\* fallback turn closes the list.
C9_Witness ==
    /\ chats[1].gateway = "rejected"
    /\ chats[1].outcome = "error"
    /\ Len(messages) = 2
    /\ messages[2].isError
    /\ ~isLoading

\* C10: what a gateway hands back is never empty: no empty imageUrl from
\* generateWorkshopImage, no model message of zero parts from sendMessage.
C10_NeverEmptyResult ==
    /\ \A c \in CallIds :
          (calls[c].kind \in ImageKinds /\ calls[c].gateway = "returned")
          => calls[c].imageUrl # NoUrl
    /\ \A i \in 1..Len(messages) :
          messages[i].role = "model" => messages[i].nparts > 0

\* C11: a clear leaves the workshop history empty and the latch open, and
\* the first image call started after it, when it has style references to
\* inject, sends them, whatever call was in flight at the clear (here: an
\* earlier character image that went on to succeed).
C11_ClearReopensInjection ==
    [][/\ historyClearedAt' # historyClearedAt
          => (workshopHistory' = <<>> /\ ~sceneRefsInjected')
       /\ \A c \in CallIds :
             (/\ Dispatches(c)
              /\ c = historyClearedAt
              /\ Len(calls'[c].styleRefs) > 0
              /\ \A e \in 1..(c - 1) :
                    /\ calls[e].kind = "charimg"
                    /\ calls[e].pc = "done"
                    /\ calls[e].outcome = "ok")
             => HasStyle(calls'[c].parts)]_vars

\* Call c completes as a success on this step; call c starts on this step.
Succeeds(c) == calls[c].pc # "done" /\ calls'[c].pc = "done" /\ calls'[c].outcome = "ok"

Starts(c) == calls[c].pc = "idle" /\ calls'[c].pc # "idle"

PromptName(turn) == turn.parts[Len(turn.parts)].name

Portrait(c) == NormalizedUrl(calls[c].imageUrl)

\* C13: when two portrait calls for one character both succeeded and the
\* older one resolved after the newer one, the character and its catalog
\* entry hold the newer call's portrait.
C13_NewerPortraitWins ==
    \A i, j \in 1..Len(workshopHistory) :
        LET newer == workshopHistory[i].call
            older == workshopHistory[j].call
        IN (/\ i < j /\ older < newer
            /\ workshopHistory[i].role = "user" /\ workshopHistory[j].role = "user"
            /\ calls[newer].kind = "charimg" /\ calls[older].kind = "charimg"
            /\ calls[newer].outcome = "ok" /\ calls[older].outcome = "ok"
            /\ calls[newer].imageUrl # NoUrl /\ calls[older].imageUrl # NoUrl
            /\ PromptName(workshopHistory[i]) = PromptName(workshopHistory[j]))
           => /\ \A k \in 1..Len(characters) :
                    characters[k].name = PromptName(workshopHistory[i])
                    => characters[k].imageUrl = Portrait(newer)
              /\ \A k \in 1..Len(entities) :
                    entities[k].name = stripAtName(PromptName(workshopHistory[i]))
                    => entities[k].base64 = Portrait(newer).data

\* C14: no two entities of the catalog have the same name.
C14_UniqueNames ==
    \A i, j \in 1..Len(entities) : i # j => entities[i].name # entities[j].name

\* The section a segment belongs to: 1 style references, 2 character or
\* mention references, 3 attachments, 4 the text or prompt.  An image
\* belongs to the section of the label right before it, an image without a
\* label is an attachment.
SegTag(parts, i) == IF parts[i].kind = "image" THEN "image" ELSE parts[i].tag

Section(parts, i) ==
    LET tag == SegTag(parts, i)
        before == IF i > 1 THEN SegTag(parts, i - 1) ELSE ""
    IN IF tag \in {"style-begin", "style-label", "style-end"} THEN 1
       ELSE IF tag \in {"char-begin", "char-label", "char-end", "injection-begin",
                        "visual-reference", "offline-note", "injection-end"} THEN 2
       ELSE IF tag = "image"
            THEN (IF before = "style-label" THEN 1
                  ELSE IF before \in {"char-label", "visual-reference"} THEN 2 ELSE 3)
       ELSE 4

OrderedParts(parts) ==
    /\ \A i \in 1..Len(parts) : \A j \in 1..Len(parts) :
          i < j => Section(parts, i) <= Section(parts, j)
    /\ \A i \in 1..Len(parts) :
          /\ SegTag(parts, i) \in {"style-label", "char-label"}
             => (i < Len(parts) /\ SegTag(parts, i + 1) = "image")
          /\ SegTag(parts, i) = "visual-reference"
             => (i < Len(parts) /\ SegTag(parts, i + 1) \in {"image", "offline-note"})
          /\ Section(parts, i) = 4 => i = Len(parts)

\* Chat call c is sent on this step with one mention, which has an image,
\* and without attachments.
SendsOneMention(c) ==
    /\ chats[c].pc = "idle" /\ chats'[c].pc = "api"
    /\ messages'[Len(messages')].nparts = 1
    /\ Len(Mentions(chats'[c].parts[Len(chats'[c].parts)].name, entities)) = 1
    /\ Mentions(chats'[c].parts[Len(chats'[c].parts)].name, entities)[1].base64 # 0

\* C15: every payload sent or recorded keeps the order style section,
\* reference labels each followed by its image, attachments, text or
\* prompt last; a workshop payload ends with its prompt; and a chat turn
\* with one imaged mention and no attachment is exactly begin marker,
\* label, image, end marker, text.
C15_SegmentOrder ==
    /\ [](/\ \A c \in CallIds :
                calls[c].pc = "api" /\ calls[c].kind \in ImageKinds
                => /\ OrderedParts(calls[c].parts)
                   /\ calls[c].parts[Len(calls[c].parts)].tag = "prompt"
          /\ \A c \in ChatIds : chats[c].pc = "api" => OrderedParts(chats[c].parts)
          /\ \A i \in 1..Len(workshopHistory) :
                workshopHistory[i].role = "user" => OrderedParts(workshopHistory[i].parts)
          /\ \A i \in 1..Len(history) :
                history[i].role = "user" => OrderedParts(history[i].parts))
    /\ [][\A c \in ChatIds :
             SendsOneMention(c)
             => LET parts == chats'[c].parts
                    m == Mentions(parts[Len(parts)].name, entities)[1]
                IN parts = <<TextSeg("injection-begin", <<>>, 0),
                             TextSeg("visual-reference", m.name, 0),
                             ImageSeg(m.mimeType, m.base64),
                             TextSeg("injection-end", <<>>, 0),
                             parts[Len(parts)]>>]_vars

\* C15 witness: the chat turn "draw @A" is at the model with the five
\* segments, and a page render with style and character sections too.
C15_Witness ==
    /\ chats[1].pc = "api"
    /\ Len(chats[1].parts) = 5
    /\ chats[1].parts[3] = ImageSeg("image/jpeg", 101)
    /\ chats[1].parts[5].name = <<"draw", "@", "A">>
    /\ \E c \in CallIds :
          /\ calls[c].kind = "page" /\ calls[c].pc = "api"
          /\ HasStyle(calls[c].parts)
          /\ Len(calls[c].charRefs) > 0

\* Every payload in flight or recorded: of the image calls and chat calls
\* at the model, and of the user turns of both histories.
Payloads ==
    {calls[c].parts : c \in {d \in CallIds : calls[d].pc = "api"}}
    \cup {chats[c].parts : c \in {d \in ChatIds : chats[d].pc = "api"}}
    \cup {workshopHistory[i].parts :
            i \in {k \in 1..Len(workshopHistory) : workshopHistory[k].role = "user"}}
    \cup {history[i].parts : i \in {k \in 1..Len(history) : history[k].role = "user"}}

\* The positions of the label of name in parts.
LabelsOf(parts, name) ==
    {i \in 1..Len(parts) : parts[i].tag = "visual-reference" /\ parts[i].name = name}

\* C16: no payload holds an image segment with empty data, and a mentioned
\* entity without image contributes its label followed by the offline
\* notice.
C16_NoEmptyImage ==
    /\ [](\A parts \in Payloads :
             \A i \in 1..Len(parts) : parts[i].kind = "image" => parts[i].data # 0)
    /\ [][\A c \in ChatIds :
             (chats[c].pc = "idle" /\ chats'[c].pc = "api")
             => LET parts == chats'[c].parts
                    ms == Mentions(parts[Len(parts)].name, entities)
                IN \A k \in 1..Len(ms) :
                      ms[k].base64 = 0
                      => /\ LabelsOf(parts, ms[k].name) # {}
                         /\ \A i \in LabelsOf(parts, ms[k].name) :
                               parts[i + 1] = TextSeg("offline-note", ms[k].name, 0)]_vars

\* C16 witness: the chat turn mentioning B, which has no image, is at the
\* model with B's offline notice, while a page render is there too.
C16_Witness ==
    /\ chats[1].pc = "api"
    /\ \E i \in 1..Len(chats[1].parts) :
          chats[1].parts[i] = TextSeg("offline-note", <<"B">>, 0)
    /\ \E c \in CallIds : calls[c].kind = "page" /\ calls[c].pc = "api"

\* T holds p as a contiguous piece.
Occurs(T, p) ==
    \E i \in 1..(Len(T) + 1) :
        /\ i + Len(p) - 1 <= Len(T)
        /\ SubSeq(T, i, i + Len(p) - 1) = p

\* The text of the user in a chat payload, empty when there is none.
TextOf(parts) ==
    IF parts # <<>> /\ parts[Len(parts)].tag = "user-text"
    THEN parts[Len(parts)].name ELSE <<>>

\* The entities a chat payload injects: per label, the name and the image
\* data that follows it (0 for the offline notice).
Injected(parts) ==
    LET at == {i \in 1..Len(parts) : parts[i].tag = "visual-reference"}
        seg == SelectSeq([i \in 1..Len(parts) |-> i], LAMBDA i : i \in at)
    IN [k \in 1..Len(seg) |->
           [name |-> parts[seg[k]].name,
            base64 |-> IF parts[seg[k] + 1].kind = "image" THEN parts[seg[k] + 1].data ELSE 0]]

\* C17: a chat turn injects exactly the catalog's entities whose name, with
\* the at sign before it, occurs in the text, in catalog order and once each.
C17_ExactMentions ==
    [][\A c \in ChatIds :
          (chats[c].pc = "idle" /\ chats'[c].pc = "api")
          => LET parts == chats'[c].parts
                 T == TextOf(parts)
                 want == SelectSeq(entities, LAMBDA e : Occurs(T, <<"@">> \o e.name))
             IN /\ Injected(parts) = [k \in 1..Len(want) |->
                                         [name |-> want[k].name, base64 |-> want[k].base64]]
                /\ Mentions(T, entities) = want
                /\ \A e \in CatalogPool :
                      Cardinality({k \in 1..Len(Injected(parts)) :
                                     Injected(parts)[k] = [name |-> e.name, base64 |-> e.base64]}) <= 1]_vars

\* C17 witness: the text names A twice and the catalog holds A and AB; the
\* payload at the model carries A once and not AB.
C17_Witness ==
    /\ entities = <<CatalogA, Entity(205, <<"A", "B">>, 106, "image/png")>>
    /\ chats[1].pc = "api"
    /\ TextOf(chats[1].parts) = <<"@", "A", "and", "@", "A">>
    /\ Injected(chats[1].parts) = <<[name |-> <<"A">>, base64 |-> 101]>>

\* Call c of the given kind returns with a result.
StageSucceeds(c, kind) ==
    calls[c].kind = kind /\ calls[c].pc = "api" /\ calls'[c].pc = "done" /\ calls'[c].outcome = "ok"

\* C18: a successful extraction replaces characters and items and leaves
\* storyboard and pageRenders empty; a successful storyboard generation
\* replaces the storyboard, empties pageRenders and keeps characters and
\* items; nothing else changes storyboard or items.
C18_ForwardCascade ==
    [][/\ \A c \in CallIds :
            /\ StageSucceeds(c, "analysis")
               => /\ storyboard' = <<>>
                  /\ pageRenders' = NoRenders
                  /\ \E r \in ExtractResults :
                        /\ items' = r.items
                        /\ Len(characters') = Len(r.characters)
                        /\ \A i \in 1..Len(r.characters) :
                              /\ characters'[i].name = ensureAtName(r.characters[i].name)
                              /\ characters'[i].id = CharId(c, i - 1)
            /\ StageSucceeds(c, "storyboard")
               => /\ storyboard' \in StoryboardResults
                  /\ pageRenders' = NoRenders
                  /\ UNCHANGED <<characters, items>>
       /\ (storyboard' # storyboard \/ items' # items)
          => \E c \in CallIds :
                StageSucceeds(c, "analysis") \/ StageSucceeds(c, "storyboard")]_vars

\* C18 witness: the staged project was analysed again: the extraction has
\* returned, the characters are the new ones, and storyboard and renders
\* are empty.
C18_Witness ==
    /\ assetStore[<<"s1", 1>>] = StoredImage
    /\ \E c \in CallIds :
          /\ calls[c].kind = "analysis" /\ calls[c].pc = "done" /\ calls[c].outcome = "ok"
          /\ characters # <<>>
          /\ \A i \in 1..Len(characters) : characters[i].id.t = c
    /\ \A c \in CallIds : calls[c].kind \in {"none", "analysis"}
    /\ items = <<"sword">>
    /\ storyboard = <<>>
    /\ pageRenders = NoRenders
    /\ step = "analysis"

\* The novel text a stage call carries in its prompt.
SentText(c) == calls'[c].parts[Len(calls'[c].parts)].name

StageDispatches(c, kind) == calls[c].pc = "idle" /\ calls'[c].pc = "api" /\ calls'[c].kind = kind

\* s is the first n characters of t, or all of t when t is shorter.
IsCutTo(s, t, n) ==
    /\ Len(s) = (IF Len(t) < n THEN Len(t) ELSE n)
    /\ \A i \in 1..Len(s) : s[i] = t[i]

\* C19 as stated: both stages send the novel text cut to a fixed budget,
\* and the storyboard stage's budget is the larger one, so a text longer
\* than the extraction budget goes to the storyboard stage with more
\* characters than the extraction budget.
C19_StoryboardBudgetLarger ==
    [][\A c \in CallIds :
          /\ StageDispatches(c, "analysis") => IsCutTo(SentText(c), novelText, 10000)
          /\ StageDispatches(c, "storyboard")
             => /\ \E n \in 10001..12000 : IsCutTo(SentText(c), novelText, n)]_vars

\* C19 amended: the extraction stage sends the first 10000 characters and
\* the storyboard stage the first 8000 characters of the novel text, a
\* shorter text being sent whole: the storyboard stage's budget is the
\* smaller one.
C19_StoryboardBudgetSmaller ==
    [][\A c \in CallIds :
          /\ StageDispatches(c, "analysis") => IsCutTo(SentText(c), novelText, 10000)
          /\ StageDispatches(c, "storyboard") => IsCutTo(SentText(c), novelText, 8000)]_vars

\* C19 witness: a text of 10001 characters is at both stages at once, cut
\* to 10000 characters in the extraction call and to 8000 in the
\* storyboard call.
C19_Witness ==
    /\ Len(novelText) = 10001
    /\ \E c, d \in CallIds :
          /\ calls[c].kind = "analysis" /\ calls[c].pc = "api"
          /\ Len(calls[c].parts[Len(calls[c].parts)].name) = 10000
          /\ calls[d].kind = "storyboard" /\ calls[d].pc = "api"
          /\ Len(calls[d].parts[Len(calls[d].parts)].name) = 8000

\* C20: no snapshot of the text store holds a render image; the asset store
\* gets an image only from a page render's save, under the key of that
\* render's session and page; a hydration reads each page under the key of
\* its session and page, and applies what it read only to a page that has
\* no image.
C20_ImagesInAssetStoreOnly ==
    /\ [](\A s \in Sessions :
             \A p \in DOMAIN textStore[s].pageRenders :
                textStore[s].pageRenders[p].imageUrl = NoUrl)
    /\ [][/\ \A k \in Sessions \X Pages :
                (assetStore'[k] # assetStore[k] /\ assetStore'[k] # NoUrl)
                => \E c \in CallIds :
                      /\ calls[c].kind = "page" /\ calls[c].pc = "save" /\ calls'[c].pc = "done"
                      /\ k = <<calls[c].sid, calls[c].page>>
                      /\ assetStore'[k] = calls[c].normalizedUrl
          /\ \A h \in hydrations :
                /\ (h.pc = "read" /\ h \notin hydrations')
                   => \E g \in hydrations' :
                         /\ g.pc = "apply" /\ g.sid = h.sid
                         /\ \A p \in DOMAIN g.entries : g.entries[p] = assetStore[<<h.sid, p>>]
                /\ (h.pc = "apply" /\ h \notin hydrations')
                   => \A p \in DOMAIN pageRenders' :
                         IF p \in DOMAIN pageRenders /\ pageRenders[p].imageUrl # NoUrl
                         THEN pageRenders'[p] = pageRenders[p]
                         ELSE pageRenders'[p].imageUrl # NoUrl
                              => /\ p \in DOMAIN h.entries
                                 /\ pageRenders'[p].imageUrl = h.entries[p]]_vars

\* C20 witness: the restored session's hydration is over, page 1 was
\* rendered anew and shows the image saved under the key of session and
\* page, and the snapshot of the session holds no image.
C20_Witness ==
    /\ hydrations = {}
    /\ \E c \in CallIds :
          calls[c].kind = "page" /\ calls[c].pc = "done" /\ calls[c].outcome = "ok"
    /\ 1 \in DOMAIN pageRenders
    /\ pageRenders[1].imageUrl \notin {NoUrl, StoredImage}
    /\ assetStore[<<"s1", 1>>] = pageRenders[1].imageUrl
    /\ 1 \in DOMAIN textStore["s1"].pageRenders
    /\ textStore["s1"].pageRenders[1].imageUrl = NoUrl
\* The save request of call c, a portrait generation or an upload, fails.
SaveFails(c) ==
    /\ calls[c].kind \in {"charimg", "upload"}
    /\ calls[c].pc = "kbpersist" /\ calls'[c].pc = "done" /\ calls'[c].saved = "no"

\* C21: when the save request of a portrait fails, the call still ends
\* well, the catalog is left as the push updated it and holds an entity of
\* the character's bare name with an image, the character takes the
\* portrait, and no error message appears.
C21_SaveFailureSwallowed ==
    [][\A c \in CallIds :
          SaveFails(c)
          => /\ calls'[c].outcome = "ok"
             /\ entities' = entities
             /\ \E k \in 1..Len(entities') :
                   /\ entities'[k].name = stripAtName(calls[c].name)
                   /\ entities'[k].base64 # 0
             /\ \A i \in 1..Len(characters') :
                   characters'[i].id = calls[c].charId
                   => characters'[i].imageUrl = calls[c].normalizedUrl
             /\ \E i \in 1..Len(characters') : characters'[i].id = calls[c].charId
             /\ errorMessage' = errorMessage
             /\ onErrorCount' = onErrorCount]_vars

\* C21 witness: the save of B's generated portrait and the save of A's
\* uploaded image have both failed; the catalog holds both images, both
\* characters show them, and no message is up.
C21_Witness ==
    /\ \E c, d \in CallIds :
          /\ calls[c].kind = "charimg" /\ calls[c].pc = "done" /\ calls[c].saved = "no"
          /\ calls[d].kind = "upload" /\ calls[d].pc = "done" /\ calls[d].saved = "no"
    /\ errorMessage = ""
    /\ Len(characters) = 2
    /\ characters[1].imageUrl = NormalizedUrl(UploadedFile)
    /\ characters[2].imageUrl \notin {NoUrl, NormalizedUrl(UploadedFile)}
    /\ \E k \in 1..Len(entities) :
          entities[k].name = <<"A">> /\ entities[k].base64 = NormalizedUrl(UploadedFile).data
    /\ \E k \in 1..Len(entities) :
          entities[k].name = <<"B">> /\ entities[k].base64 = characters[2].imageUrl.data

\* A name without its leading at sign.
Bare(name) == IF name # <<>> /\ name[1] = "@" THEN Tail(name) ELSE name

\* C22: every character's name starts with the at sign; a character
\* without portrait never stands beside a catalog entity of its bare name
\* that has an image; an entity written by a portrait push is named by
\* the character's name without the at sign; a portrait dispatch takes a
\* reference exactly when the catalog holds the bare name with an image;
\* a page dispatch refers to characters whose bare name is in a panel.
C22_AtNames ==
    /\ [](/\ \A i \in 1..Len(characters) :
                characters[i].name # <<>> /\ characters[i].name[1] = "@"
          /\ \A i \in 1..Len(characters) :
                characters[i].imageUrl = NoUrl
                => ~\E k \in 1..Len(entities) :
                      entities[k].name = Tail(characters[i].name) /\ entities[k].base64 # 0)
    /\ [][\A c \in CallIds :
             /\ (calls[c].pc = "kbcompress" /\ calls'[c].pc = "kbpersist")
                => /\ calls[c].name[1] = "@"
                   /\ \E k \in 1..Len(entities') :
                         /\ entities'[k].name = Tail(calls[c].name)
                         /\ entities'[k].base64 = calls'[c].normalizedUrl.data
                   /\ \A k \in 1..Len(entities') :
                         entities'[k].name # Tail(calls[c].name)
                         => \E j \in 1..Len(entities) : entities[j] = entities'[k]
             /\ (Starts(c) /\ calls'[c].kind = "charimg")
                => (calls'[c].charRefs # <<>>
                    <=> \E k \in 1..Len(entities) :
                           /\ entities[k].name = Tail(calls'[c].name)
                           /\ entities[k].base64 # 0 /\ entities[k].mimeType # "")
             /\ (Starts(c) /\ calls'[c].kind = "page")
                => \A r \in 1..Len(calls'[c].charRefs) :
                      \E i \in 1..Len(calls'[c].panels) :
                         \E j \in 1..Len(calls'[c].panels[i].charactersInScene) :
                            Bare(calls'[c].panels[i].charactersInScene[j])
                               = Tail(calls'[c].charRefs[r].name)]_vars

\* C22 witness: the extraction named a character B without the at sign;
\* the workshop holds it as @B, its portrait was generated, and the
\* catalog holds the image under the name B.
C22_Witness ==
    /\ \E c \in CallIds : calls[c].kind = "analysis" /\ calls[c].outcome = "ok"
    /\ \E c \in CallIds : calls[c].kind = "charimg" /\ calls[c].outcome = "ok"
    /\ Len(characters) = 2
    /\ characters[2].name = <<"@", "B">>
    /\ characters[2].imageUrl # NoUrl
    /\ \E k \in 1..Len(entities) :
          entities[k].name = <<"B">> /\ entities[k].base64 = characters[2].imageUrl.data

\* The page render c ends without committing: rejected, thrown, or returned
\* at once for a page without panels.
EndsUncommitted(c) ==
    /\ calls[c].kind = "page" /\ calls[c].pc # "done" /\ calls'[c].pc = "done"
    /\ calls'[c].outcome \in {"error", "auth", "noop"}

\* C23: when a page render ends without committing, the page shows the
\* image it showed and the asset store holds the image it held when the
\* request started.
C23_FailureKeepsRender ==
    [][\A c \in CallIds :
          EndsUncommitted(c)
          => /\ calls[c].page \in DOMAIN pageRenders'
                => pageRenders'[calls[c].page].imageUrl = calls[c].before.imageUrl
             /\ calls[c].page \notin DOMAIN pageRenders' => calls[c].before.imageUrl = NoUrl
             /\ assetStore'[<<calls[c].sid, calls[c].page>>] = calls[c].before.stored]_vars

\* Character ch is named, with or without the at sign, in a panel of page p.
OnPage(ch, p) ==
    \E k \in 1..Len(storyboard) :
        /\ storyboard[k].pageNumber = p
        /\ \E j \in 1..Len(storyboard[k].charactersInScene) :
              Bare(storyboard[k].charactersInScene[j]) = Bare(ch.name)

\* The image data of the character section of a workshop payload.
CharImages(parts) ==
    LET at == SelectSeq([i \in 1..Len(parts) |-> i],
                        LAMBDA i : parts[i].kind = "image" /\ parts[i - 1].tag = "char-label")
    IN [k \in 1..Len(at) |-> parts[at[k]].data]

CharOf(c) == SelectSeq(characters, LAMBDA ch : ch.id = calls'[c].charId)

\* C25 as stated: a portrait generation attaches at most one character
\* reference, the portrait the character has, and none when it has none.
C25_OwnPortraitOnly ==
    [][\A c \in CallIds :
          (Starts(c) /\ calls'[c].kind = "charimg")
          => /\ Len(calls'[c].charRefs) <= 1
             /\ Len(CharOf(c)) = 1
             /\ IF CharOf(c)[1].imageUrl = NoUrl
                THEN calls'[c].charRefs = <<>>
                ELSE /\ Len(calls'[c].charRefs) = 1
                     /\ calls'[c].charRefs[1].data = CharOf(c)[1].imageUrl.data]_vars

\* C26: while the latch is true, some call dispatched since the last clear
\* carried style-reference segments; and the call that sets the latch
\* carried them itself.
C26_LatchMeansInjected ==
    /\ [](sceneRefsInjected
          => \E c \in CallIds :
                /\ c >= historyClearedAt
                /\ \/ calls[c].pc \in {"api", "compress", "save", "kbcompress", "kbpersist"}
                         /\ HasStyle(calls[c].parts)
                   \/ calls[c].pc = "done" /\ calls[c].style)
    /\ [][(~sceneRefsInjected /\ sceneRefsInjected')
          => \E c \in CallIds : calls'[c] # calls[c] /\ HasStyle(calls[c].parts)]_vars

\* C27: a step of a call that was requested in another session than the
\* active one changes neither the characters, the storyboard and the
\* renders of the active session nor the snapshot stored under its id.
C27_CommitToOwnSession ==
    [][\A c \in CallIds :
          (calls[c].pc \notin {"idle", "done"} /\ calls'[c] # calls[c] /\ calls[c].sid # sessionId)
          => /\ UNCHANGED <<characters, storyboard, pageRenders>>
             /\ textStore'[sessionId] = textStore[sessionId]]_vars


\* C28: a page render commits a non-empty image for page p only when the
\* panels it was generated from are the panels the current storyboard
\* assigns to p.
C28_RenderFromCurrentPanels ==
    [][\A c \in CallIds :
          LET p == calls[c].page
          IN (/\ calls[c].kind = "page" /\ calls'[c] # calls[c]
              /\ p \in DOMAIN pageRenders'
              /\ pageRenders'[p].imageUrl # NoUrl
              /\ (p \notin DOMAIN pageRenders \/ pageRenders'[p] # pageRenders[p]))
             => calls[c].panels = PagePanels(storyboard, p)]_vars


\* The operations that run inside withLoading, and one of them in flight.
WithLoadingKinds == {"analysis", "storyboard", "charimg", "page"}

StageInFlight(c) == calls[c].kind \in WithLoadingKinds /\ calls[c].pc \notin {"idle", "done"}

\* C29: the loading flag is true exactly while a stage operation started
\* through withLoading is in flight, and no stage operation starts while it
\* is true.
C29_LoadingIffInFlight ==
    /\ [](loading <=> \E c \in CallIds : StageInFlight(c))
    /\ [][\A c \in CallIds : (Starts(c) /\ calls'[c].kind \in WithLoadingKinds) => ~loading]_vars


\* The values of the chunks put together.
RECURSIVE ChunkValues(_)
ChunkValues(chunks) ==
    IF chunks = <<>> THEN <<>> ELSE Head(chunks).value \o ChunkValues(Tail(chunks))

\* The offset in the text at which chunk k starts.
ChunkOffset(chunks, k) == Len(ChunkValues(SubSeq(chunks, 1, k - 1)))

\* The cursor of the loop when chunk k was cut: the start of the text chunk
\* before a mention, else the start of the chunk itself.
ChunkCursor(chunks, k) ==
    IF chunks[k].type = "mention" /\ k > 1 /\ chunks[k - 1].type = "text"
    THEN ChunkOffset(chunks, k - 1) ELSE ChunkOffset(chunks, k)

\* Some entity's token starts at offset o of text T.
TokenAt(T, o, ents) ==
    \E e \in 1..Len(ents) :
        /\ o + 1 + Len(ents[e].name) <= Len(T)
        /\ SubSeq(T, o + 1, o + 1 + Len(ents[e].name)) = <<"@">> \o ents[e].name

\* C30: the chunks of a message put together give the message; every chunk
\* of a non-empty message is non-empty, so the loop advances; a mention chunk
\* is the token of a catalog entity, no token starts between the cursor and
\* it, no longer token starts where it starts, and the text after the last
\* mention holds no token.
C30_ChunksCoverText ==
    \A c \in ChatIds :
        chats[c].pc = "api"
        => LET T == chats[c].text
               chunks == RenderedChunks(c)
           IN /\ ChunkValues(chunks) = T
              /\ T # <<>> => \A k \in 1..Len(chunks) : chunks[k].value # <<>>
              /\ \A k \in 1..Len(chunks) :
                    LET o == ChunkOffset(chunks, k)
                    IN IF chunks[k].type = "mention"
                       THEN /\ \E e \in 1..Len(entities) :
                                  /\ chunks[k].entity = entities[e]
                                  /\ chunks[k].value = <<"@">> \o entities[e].name
                            /\ \A q \in ChunkCursor(chunks, k)..(o - 1) : ~TokenAt(T, q, entities)
                            /\ \A e \in 1..Len(entities) :
                                  Len(entities[e].name) + 1 > Len(chunks[k].value)
                                  => ~(/\ o + 1 + Len(entities[e].name) <= Len(T)
                                       /\ SubSeq(T, o + 1, o + 1 + Len(entities[e].name))
                                            = <<"@">> \o entities[e].name)
                       ELSE k = Len(chunks) /\ Len(entities) > 0
                            => \A q \in o..(Len(T) - 1) : ~TokenAt(T, q, entities)

\* C30 witness: the message '@AB@' is shown with the catalog holding A and
\* AB: the longer token wins at offset 0 and the lone at sign stays text.
C30_Witness ==
    /\ entities = <<CatalogA, Entity(205, <<"A", "B">>, 106, "image/png")>>
    /\ chats[1].pc = "api"
    /\ chats[1].text = <<"@", "A", "B", "@">>
    /\ RenderedChunks(1) =
          <<[type |-> "mention", value |-> <<"@", "A", "B">>,
             entity |-> Entity(205, <<"A", "B">>, 106, "image/png")],
            TextChunk(<<"@">>)>>

====
